---------------------------- MODULE Spec2Model ----------------------------
(***************************************************************************)
(* A model of the Aave liquidation monitor:                                *)
(*                                                                         *)
(*   - RotatingRpcProvider (RotatingRpcProvider.ts): the read provider     *)
(*     that rotates over N JSON-RPC backends on HTTP 429 and stays on the  *)
(*     backend that last answered.                                         *)
(*   - runWatchlistMonitor (scripts/watchlist_worker.ts): the watchlist    *)
(*     worker, its timer, its tick and the monitor-state store it reads    *)
(*     and writes.                                                         *)
(*                                                                         *)
(*   - the functions of the monitor that depend on their arguments only    *)
(*     (getUserAccountDataBatch, the classification of a health factor,    *)
(*     computeMaxRepay, evaluateProfit, the evaluation of one account,     *)
(*     the start-up of the worker, evaluateLiquidation), each called on    *)
(*     its own.                                                            *)
(*   - PositionMonitor.startMonitoring: the discovery loop, its timer and  *)
(*     its running flag.                                                   *)
(*                                                                         *)
(* Each part has its own specification (ProviderSpec, Spec, CalcSpec); the *)
(* variables of the other parts keep their initial value.  TickSpec is one *)
(* tick of the worker alone, from any store; FleetSpec is several worker   *)
(* processes over one store, each running one tick at a time; QueueSpec    *)
(* and ProviderLiveSpec add the fairness of awaits that settle;            *)
(* DiscoverySpec is the discovery loop.                                    *)
(***************************************************************************)
EXTENDS Integers, Sequences, FiniteSets, TLC

VARIABLES
    activeIndex,    \* RotatingRpcProvider.activeIndex
    call,           \* the _perform calls in flight, by slot
    mode,           \* runWatchlistMonitor(mode)
    now,            \* the store's clock, now()
    store,          \* borrower_monitor_state, by borrower_id
    opps,           \* liquidation_opportunities, in insertion order
    pstate,         \* where runWatchlistMonitor stands
    tick,           \* the tick() calls, by slot
    calc,           \* a call of one function on its own: name, arguments, outcome
    discovery       \* PositionMonitor.startMonitoring: flag, checks, timer

providerVars == <<activeIndex, call>>

workerVars == <<mode, now, store, opps, pstate, tick>>

vars == <<activeIndex, call, mode, now, store, opps, pstate, tick, calc, discovery>>

\* An absent value (null, undefined); a present one is held as <<v>>.
NULL == <<>>

Some(v) == <<v>>

\* What a call ends in: a value returned, or an exception thrown.
Returned(v) == [threw |-> FALSE, value |-> v]

Thrown == [threw |-> TRUE, value |-> NULL]

(***************************************************************************)
(* RotatingRpcProvider                                                     *)
(***************************************************************************)

\* Number of backend URLs (RPC_URLS); the provider rejects an empty list.
NBackends == 3

\* Number of _perform calls in flight at once: a tick issues two reads at a
\* time, Promise.all([getAssetsPrices, BASE_CURRENCY_UNIT]).
NCalls == 2

Backends == 0 .. (NBackends - 1)

Calls == 1 .. NCalls

\* s.includes(sub) on strings held as sequences of characters.
Includes(s, sub) ==
    \E i \in 0 .. (Len(s) - Len(sub)) : SubSeq(s, i + 1, i + Len(sub)) = sub

\* An error as is429 reads it: err.info.responseStatus, err.info.error.code,
\* err.info.responseBody (absent fields read as "" / no code).
Err429Status ==
    [responseStatus |-> <<"4", "2", "9">>, errorCode |-> 0, responseBody |-> <<>>]

Err429Code ==
    [responseStatus |-> <<"2", "0", "0">>, errorCode |-> 429, responseBody |-> <<>>]

Err429Body ==
    [responseStatus |-> <<"2", "0", "0">>, errorCode |-> 0,
     responseBody |-> <<"{", "\"", "c", "o", "d", "e", "\"", ":", "4", "2", "9", "}">>]

ErrTimeout ==
    [responseStatus |-> <<>>, errorCode |-> 0, responseBody |-> <<>>]

ErrServer ==
    [responseStatus |-> <<"5", "0", "0">>, errorCode |-> -32000,
     responseBody |-> <<"{", "\"", "c", "o", "d", "e", "\"", ":", "-", "3", "2", "}">>]

\* What the environment calls a rate-limit answer, and what it does not.
RateLimitErrors == {Err429Status, Err429Code, Err429Body}

OtherErrors == {ErrTimeout, ErrServer}

Errors == RateLimitErrors \cup OtherErrors

\* A classifier that takes every error for a rate-limit answer.
is429_RetryAll(err) == TRUE

\* is429(err): "429" in the response status, error code 429, or
\* "code":429 in the response body.
is429(err) ==
    IF Includes(err.responseStatus, <<"4", "2", "9">>) THEN TRUE
    ELSE IF err.errorCode = 429 THEN TRUE
    ELSE IF Includes(err.responseBody,
                     <<"\"", "c", "o", "d", "e", "\"", ":", "4", "2", "9">>) THEN TRUE
    ELSE FALSE

\* idx = (this.activeIndex + hop) % this.providers.length
HopIndex(active, hop) == (active + hop) % NBackends

\* A provider that stays on its backend after another one has answered.
ActiveAfterSuccess_NoSwitch(active, idx) == active

\* if (idx !== this.activeIndex) this.activeIndex = idx
ActiveAfterSuccess(active, idx) == IF idx # active THEN idx ELSE active

\* A provider that moves to the backend that has just failed.
ActiveAfterFailure_Switch(active, idx) == idx

\* The catch block assigns lastErr and nothing else: activeIndex stays.
ActiveAfterFailure(active, idx) == active

\* A catch block that keeps the first error it saw.
LastErrAfter_KeepFirst(lastErr, e) == IF lastErr = NULL THEN Some(e) ELSE lastErr

\* lastErr = e
LastErrAfter(lastErr, e) == Some(e)

\* A loop that makes one more hop than there are backends.
InLoop_OneMore(hop) == hop < NBackends + 1

\* for (let hop = 0; hop < this.providers.length; hop++): the loop goes on.
InLoop(hop) == hop < NBackends

\* The class of an answer as the environment sees it (kept in the log).
Outcome(e) == IF e \in RateLimitErrors THEN "rl" ELSE "other"

\* A call of _perform: where it stands, hop, idx and lastErr of the code;
\* its result or the error it throws; and, for the record, activeIndex at
\* entry, the attempts made (backend and class of the answer), the error
\* caught last, and whether another call wrote activeIndex meanwhile.
IdleCall ==
    [pc |-> "idle", hop |-> 0, idx |-> 0, lastErr |-> NULL,
     result |-> NULL, error |-> NULL,
     startActive |-> 0, log |-> <<>>, seen |-> NULL, disturbed |-> FALSE]

InitProvider ==
    /\ activeIndex = 0
    /\ call = [c \in Calls |-> IdleCall]

\* The calls as call c leaves them when it sets activeIndex to newActive:
\* the other calls under way are marked when the value changes.
Others(c, newActive) ==
    [d \in Calls |->
        IF d # c /\ call[d].pc = "wait" /\ newActive # activeIndex
        THEN [call[d] EXCEPT !.disturbed = TRUE]
        ELSE call[d]]

\* _perform(req) is entered (in the lowest free slot): hop = 0 and the
\* first backend is asked.
Perform(c) ==
    /\ call[c].pc = "idle"
    /\ \A d \in Calls : call[d].pc = "idle" => c <= d
    /\ call' = [call EXCEPT ![c] =
                  [IdleCall EXCEPT !.pc = "wait",
                                   !.idx = HopIndex(activeIndex, 0),
                                   !.startActive = activeIndex]]
    /\ UNCHANGED <<activeIndex, workerVars, calc, discovery>>

\* providers[idx]._perform(req) resolves: the backend becomes the active
\* one and its result is returned.
BackendResult(c) ==
    /\ call[c].pc = "wait"
    /\ activeIndex' = ActiveAfterSuccess(activeIndex, call[c].idx)
    /\ call' = [Others(c, activeIndex') EXCEPT
                  ![c].pc = "done",
                  ![c].result = Some(call[c].idx),
                  ![c].log = Append(@, [idx |-> call[c].idx, out |-> "ok"])]
    /\ UNCHANGED <<workerVars, calc, discovery>>

\* providers[idx]._perform(req) rejects with e: on a 429 the next hop is
\* tried, or lastErr is thrown after the last hop; any other error is
\* rethrown.
BackendError(c) ==
    /\ call[c].pc = "wait"
    /\ \E e \in Errors :
         LET idx  == call[c].idx
             last == LastErrAfter(call[c].lastErr, e)
             hop  == call[c].hop + 1
             log  == Append(call[c].log, [idx |-> idx, out |-> Outcome(e)])
         IN  /\ activeIndex' = ActiveAfterFailure(activeIndex, idx)
             /\ IF is429(e)
                THEN IF InLoop(hop)
                     THEN call' = [Others(c, activeIndex') EXCEPT
                                     ![c].hop = hop,
                                     ![c].idx = HopIndex(activeIndex', hop),
                                     ![c].lastErr = last,
                                     ![c].seen = Some(e),
                                     ![c].log = log]
                     ELSE call' = [Others(c, activeIndex') EXCEPT
                                     ![c].pc = "failed",
                                     ![c].hop = hop,
                                     ![c].lastErr = last,
                                     ![c].seen = Some(e),
                                     ![c].log = log,
                                     ![c].error = last]
                ELSE call' = [Others(c, activeIndex') EXCEPT
                                ![c].pc = "failed",
                                ![c].lastErr = last,
                                ![c].seen = Some(e),
                                ![c].log = log,
                                ![c].error = Some(e)]
    /\ UNCHANGED <<workerVars, calc, discovery>>

\* The caller takes the result or the error; the slot is free again.
Settle(c) ==
    /\ call[c].pc \in {"done", "failed"}
    /\ call' = [call EXCEPT ![c] = IdleCall]
    /\ UNCHANGED <<activeIndex, workerVars, calc, discovery>>

NextProvider ==
    \E c \in Calls :
        \/ Perform(c)
        \/ BackendResult(c)
        \/ BackendError(c)
        \/ Settle(c)

(***************************************************************************)
(* The watchlist worker                                                    *)
(***************************************************************************)

\* Number of monitored borrowers in the store.
NAccounts == 2

\* WATCHLIST_BATCH_SIZE, the LIMIT of the due query (100 when not set).
BatchSize == 2

\* Number of tick() calls that may be in flight at once.
MaxTicks == 2

\* The clock advances in steps of ClockStep seconds up to MaxNow.
ClockStep == 30

MaxNow == 30

\* The environment reports a health factor below 1 only while fewer than
\* MaxOpps evaluations are recorded or under way.
MaxOpps == 1

\* Fractional digits of the fixed-point health factor (18 in the source:
\* parseUnits(.., 18), formatUnits(.., 18)); scaled down for the 32-bit
\* integers of the model checker.
WadDecimals == 3

\* Integer digits of numeric(38,18), the column of last_health_factor
\* (20 in the source).
DbIntDigits == 2

Accounts == 1 .. NAccounts

Ticks == 1 .. MaxTicks

Modes == {"highfreq", "normal"}

RECURSIVE Pow10(_)
Pow10(n) == IF n = 0 THEN 1 ELSE 10 * Pow10(n - 1)

WAD == Pow10(WadDecimals)

\* const minHfWad = ethers.parseUnits(process.env.MIN_HEALTH_FACTOR ?? "1", 18)
minHfWad == 1 * WAD

\* const HF_DB_MAX_WAD = 10n ** 38n - 1n
HF_DB_MAX_WAD == Pow10(DbIntDigits + WadDecimals) - 1

\* The health factor the pool reports for an account without debt,
\* type(uint256).max: beyond every representable value.
NoDebtHf == 2 * (HF_DB_MAX_WAD + 1) - 1

\* ethers.formatUnits(hfWad, 18): the decimal numeral, integer part and
\* fractional digits.
FormatUnits(v) == <<v \div WAD, v % WAD>>

hfToDb(hfWad) ==
    IF hfWad < 0 THEN NULL
    ELSE IF hfWad > HF_DB_MAX_WAD THEN NULL
    ELSE FormatUnits(hfWad)

\* mode === "highfreq" ? "highfreq-watchlist" : "normal-watchlist"
LastStatus(m) == IF m = "highfreq" THEN "highfreq-watchlist" ELSE "normal-watchlist"

HighfreqNextCheckSeconds == 30

NormalNextCheckSeconds == 300

\* nextCheckSeconds: mode === "highfreq" ? 30 : 300
NextCheckSeconds(m) ==
    IF m = "highfreq" THEN HighfreqNextCheckSeconds ELSE NormalNextCheckSeconds

\* The health factors a snapshot may carry: below 1 (0.98), between the
\* high-frequency mark and the watch threshold (1.03), and no debt.
HfValues == {(98 * WAD) \div 100, (103 * WAD) \div 100, NoDebtHf}

\* A slot of getUserAccountDataBatch: null (the sub-call failed) or the
\* decoded healthFactor.
NullSlot == [success |-> FALSE, healthFactor |-> 0]

Slots == {NullSlot} \cup [success : {TRUE}, healthFactor : HfValues]

\* PositionMonitor thresholds, the decimal numerals of MIN_HEALTH_FACTOR
\* '1', HIGH_FREQUENCY_HEALTH_FACTOR_CHECK '1.01' and
\* MIN_HEALTH_FACTOR_THRESHOLD '1.05', in units of 1 / WAD.
minHealthFactor == 1 * WAD

highFrequencyHealthFactorCheck == (101 * WAD) \div 100

minHealthFactorThreshold == (105 * WAD) \div 100

\* Bits of the significand of a JavaScript number (53 in the source: IEEE
\* 754 double), scaled down with WadDecimals so that, as in the source, not
\* every fixed-point value has a number of its own.
FloatBits == 8

RECURSIVE Pow2(_)
Pow2(n) == IF n = 0 THEN 1 ELSE 2 * Pow2(n - 1)

\* The least power of two a with v * a / WAD >= 2 ^ (FloatBits - 1).
RECURSIVE ScaleUp(_, _)
ScaleUp(v, a) == IF v * a >= Pow2(FloatBits - 1) * WAD THEN a ELSE ScaleUp(v, 2 * a)

\* The least power of two b with v / (WAD * b) < 2 ^ FloatBits.
RECURSIVE ScaleDown(_, _)
ScaleDown(v, b) == IF v < Pow2(FloatBits) * WAD * b THEN b ELSE ScaleDown(v, 2 * b)

\* n / d rounded to the nearest integer, ties to even.
RoundHalfEven(n, d) ==
    LET q == n \div d
        r == n % d
    IN  IF 2 * r < d THEN q
        ELSE IF 2 * r > d THEN q + 1
        ELSE IF q % 2 = 0 THEN q ELSE q + 1

\* parseFloat of the decimal numeral of v / WAD (v >= 0), as
\* ethers.formatUnits(v, 18) writes it: the nearest number with a
\* significand of FloatBits bits, as the fraction num / den.
parseFloat(v) ==
    IF v = 0 THEN [num |-> 0, den |-> 1]
    ELSE IF v < Pow2(FloatBits - 1) * WAD
    THEN LET a == ScaleUp(v, 1)
         IN  [num |-> RoundHalfEven(v * a, WAD), den |-> a]
    ELSE LET b == ScaleDown(v, 1)
         IN  [num |-> RoundHalfEven(v, WAD * b) * b, den |-> 1]

\* f >= g and f <= g on numbers.
FloatGeq(f, g) == f.num * g.den >= g.num * f.den

FloatLeq(f, g) == f.num * g.den <= g.num * f.den

\* The band of a health factor, as findLiquidatablePositions branches on
\* hf = parseFloat(ethers.formatUnits(accountData.healthFactor, 18)) and on
\* its thresholds, themselves numbers parsed from their numerals.
Classify(healthFactor) ==
    LET hf     == parseFloat(healthFactor)
        min    == parseFloat(minHealthFactor)
        high   == parseFloat(highFrequencyHealthFactorCheck)
        thresh == parseFloat(minHealthFactorThreshold)
    IN  IF FloatGeq(hf, thresh) THEN "healthy"
        ELSE IF FloatLeq(hf, thresh) /\ FloatGeq(hf, high) THEN "normal-watchlist"
        ELSE IF FloatLeq(hf, high) /\ FloatGeq(hf, min) THEN "highfreq-watchlist"
        ELSE "liquidatable"

\* const chainId = parseInt(process.env.CHAIN_ID ?? "42161", 10)
chainId == 42161

\* The networks borrowers are kept for: the worker's and another one.
ChainIds == {chainId, 1}

\* A row of borrower_monitor_state (joined with borrowers.chain_id) as
\* discovery leaves it: on a watchlist, with the health factor it saw and a
\* due time.
InitRows ==
    [chain_id : {chainId},
     last_status : {"highfreq-watchlist", "normal-watchlist"},
     next_check_at : {0, ClockStep},
     last_check_at : {0},
     last_health_factor : {hfToDb((103 * WAD) \div 100)},
     last_error : {NULL}]

\* A due test that looks at the rows of every network.
IsDue_AnyNetwork(a) ==
    /\ store[a].last_status = LastStatus(mode)
    /\ store[a].next_check_at <= now

\* WHERE b.chain_id = $1 AND bms.last_status = $2 AND bms.next_check_at <= now()
IsDue(a) ==
    /\ store[a].chain_id = chainId
    /\ store[a].last_status = LastStatus(mode)
    /\ store[a].next_check_at <= now

Min(a, b) == IF a < b THEN a ELSE b

\* ORDER BY next_check_at ASC LIMIT $3: the rows the query may return, in
\* order (rows with equal next_check_at come in any order).
fetchDueBorrowers ==
    LET dueSet == {a \in DOMAIN store : IsDue(a)}
        n      == Min(BatchSize, Cardinality(dueSet))
    IN  {s \in [1 .. n -> dueSet] :
            /\ \A i, j \in 1 .. n : i < j =>
                   /\ s[i] # s[j]
                   /\ store[s[i]].next_check_at <= store[s[j]].next_check_at
            /\ \A a \in dueSet \ {s[i] : i \in 1 .. n} :
                   \A i \in 1 .. n :
                       store[s[i]].next_check_at <= store[a].next_check_at}

\* An update that leaves last_health_factor as it is.
updateMonitorState_KeepHealth(row, hf, status, error, nextCheckSeconds) ==
    [chain_id           |-> row.chain_id,
     last_check_at      |-> now,
     last_health_factor |-> row.last_health_factor,
     last_status        |-> IF status # NULL THEN status ELSE row.last_status,
     last_error         |-> error,
     next_check_at      |-> now + nextCheckSeconds]

\* An update that leaves next_check_at as it is.
updateMonitorState_KeepDue(row, hf, status, error, nextCheckSeconds) ==
    [chain_id           |-> row.chain_id,
     last_check_at      |-> now,
     last_health_factor |-> hf,
     last_status        |-> IF status # NULL THEN status ELSE row.last_status,
     last_error         |-> error,
     next_check_at      |-> row.next_check_at]

\* UPDATE borrower_monitor_state SET last_check_at = now(),
\*   last_health_factor = $2, last_status = COALESCE($3, last_status),
\*   last_error = $4, next_check_at = now() + $5 seconds
\* with [args.hf ?? null, args.status ?? null, args.error ?? null].
updateMonitorState(row, hf, status, error, nextCheckSeconds) ==
    [chain_id           |-> row.chain_id,
     last_check_at      |-> now,
     last_health_factor |-> hf,
     last_status        |-> IF status # NULL THEN status ELSE row.last_status,
     last_error         |-> error,
     next_check_at      |-> now + nextCheckSeconds]

(***************************************************************************)
(* The financial model: src/liquidation/math.ts and profit.ts              *)
(***************************************************************************)

\* The denominator of basis points, 10_000n.
BPS == 10000

\* Largest number of decimals of a token (18 in the source's examples),
\* scaled down with the amounts.
MaxDecimals == 1

Abs(x) == IF x < 0 THEN -x ELSE x

\* The division of two bigints rounded away from zero.
TruncDiv_RoundUp(a, b) ==
    LET q == (Abs(a) + Abs(b) - 1) \div Abs(b)
    IN  IF (a < 0) = (b < 0) THEN q ELSE -q

\* a / b on bigints (b # 0): the quotient truncated toward zero.
TruncDiv(a, b) ==
    LET q == Abs(a) \div Abs(b)
    IN  IF (a < 0) = (b < 0) THEN q ELSE -q

\* The larger of two bigints.
minBigInt_Larger(a, b) == IF a < b THEN b ELSE a

minBigInt(a, b) == IF a < b THEN a ELSE b

\* 10n ** BigInt(decimals)
pow10(decimals) == Pow10(decimals)

\* The test before the throw, without the one of the collateral balance.
InvalidInput_IgnoreBalance(args) ==
    \/ args.priceDebt <= 0
    \/ args.priceCol <= 0
    \/ args.liquidationBonusBps <= 0

\* The test of computeMaxRepay before it throws "Invalid input values".
InvalidInput(args) ==
    \/ args.priceDebt <= 0
    \/ args.priceCol <= 0
    \/ args.liquidationBonusBps <= 0
    \/ args.collateralBalance <= 0

maxByCloseFactor(args) == TruncDiv(args.debtAmount * args.closeFactorBps, BPS)

maxByCollateral(args) ==
    LET debtScale == pow10(args.debtDecimals)
        colScale  == pow10(args.colDecimals)
    IN  TruncDiv(args.collateralBalance * args.priceCol * BPS * debtScale,
                 args.priceDebt * args.liquidationBonusBps * colScale)

computeMaxRepay(args) ==
    IF InvalidInput(args) THEN Thrown
    ELSE Returned(minBigInt(maxByCloseFactor(args), maxByCollateral(args)))

\* The least power of two a with n * a / d >= 2 ^ (FloatBits - 1).
RECURSIVE ScaleUpBy(_, _, _)
ScaleUpBy(n, d, a) ==
    IF n * a >= Pow2(FloatBits - 1) * d THEN a ELSE ScaleUpBy(n, d, 2 * a)

\* The least power of two b with n / (d * b) < 2 ^ FloatBits.
RECURSIVE ScaleDownBy(_, _, _)
ScaleDownBy(n, d, b) ==
    IF n < Pow2(FloatBits) * d * b THEN b ELSE ScaleDownBy(n, d, 2 * b)

\* The number nearest to n / d (d > 0): a significand of FloatBits bits,
\* as the fraction num / den.
FloatOf(n, d) ==
    LET m == Abs(n)
        s == IF n < 0 THEN -1 ELSE 1
    IN  IF m = 0 THEN [num |-> 0, den |-> 1]
        ELSE IF m < Pow2(FloatBits - 1) * d
        THEN LET a == ScaleUpBy(m, d, 1)
             IN  [num |-> s * RoundHalfEven(m * a, d), den |-> a]
        ELSE LET b == ScaleDownBy(m, d, 1)
             IN  [num |-> s * RoundHalfEven(m, d * b) * b, den |-> 1]

\* Number(x) of a bigint.
Number(x) == FloatOf(x, 1)

\* f / g on numbers (g > 0), rounded as every operation on numbers is.
FloatDiv(f, g) == FloatOf(f.num * g.den, f.den * g.num)

\* f < g on numbers.
FloatGt_Less(f, g) == f.num * g.den < g.num * f.den

\* f > g on numbers.
FloatGt(f, g) == f.num * g.den > g.num * f.den

\* An optional argument and its default.
OrDefault(opt, default) == IF opt = NULL THEN default ELSE opt[1]

\* profitBase without the value repaid.
profitBase_Gross(seizedValueBase, repayValueBase, feeBase, extraCostBase) ==
    seizedValueBase - feeBase - extraCostBase

profitBase(seizedValueBase, repayValueBase, feeBase, extraCostBase) ==
    seizedValueBase - repayValueBase - feeBase - extraCostBase

evaluateProfit(args) ==
    LET dexFeeBps     == OrDefault(args.dexFeeBps, 0)
        extraCostBase == OrDefault(args.extraCostBase, 0)
        repay         == computeMaxRepay(args)
        repayAmount     == repay.value
        repayValueBase  == TruncDiv(repayAmount * args.priceDebt, pow10(args.debtDecimals))
        seizedValueBase == TruncDiv(repayValueBase * args.liquidationBonusBps, BPS)
        feeBase         == TruncDiv(repayValueBase * dexFeeBps, BPS)
        profit          == profitBase(seizedValueBase, repayValueBase, feeBase, extraCostBase)
    IN  IF repay.threw THEN Thrown
        ELSE Returned([repayAmount     |-> repayAmount,
                       profitBase      |-> profit,
                       profitUsdApprox |-> FloatDiv(Number(profit), Number(args.baseUnit))])

\* closeFactorBps and dexFeeBps of the worker's evaluation.
CloseFactorBps == 5000

\* parseFloat(process.env.MIN_PROFIT_USD || '100'), the least profit for
\* which findLiquidatablePositions keeps a pair.
minProfitUSD == 100

DexFeeBps == 30

\* What the worker reads of a debt of the account: getUserDebts, the
\* decimals of getReserveConfigurationData and the price of the oracle
\* (0: none).  Amounts are scaled down; "DAI" is a debt at stable rate only,
\* "FRAX" has no price, "GHO" is a debt of two units.
DebtReads ==
    << [asset |-> "USDC", variableDebt |-> 1000, decimals |-> 0, price |-> 1],
       [asset |-> "USDT", variableDebt |-> 40,   decimals |-> 0, price |-> 3],
       [asset |-> "DAI",  variableDebt |-> 0,    decimals |-> 0, price |-> 1],
       [asset |-> "FRAX", variableDebt |-> 40,   decimals |-> 0, price |-> 0],
       [asset |-> "GHO",  variableDebt |-> 2,    decimals |-> 0, price |-> 1] >>

\* What the worker reads of a collateral of the account: the aToken balance
\* read in the loop, decimals and liquidationBonus of the reserve, and the
\* price.  The balance of "WBTC" is gone when the loop reads it; "LINK" has
\* no liquidation bonus.
CollateralReads ==
    << [asset |-> "WETH", balance |-> 100, decimals |-> 1,
        liquidationBonus |-> 10500, price |-> 2000],
       [asset |-> "ARB",  balance |-> 30,  decimals |-> 0,
        liquidationBonus |-> 11000, price |-> 1],
       [asset |-> "WBTC", balance |-> 0,   decimals |-> 1,
        liquidationBonus |-> 10500, price |-> 3],
       [asset |-> "LINK", balance |-> 7,   decimals |-> 0,
        liquidationBonus |-> 0,     price |-> 3] >>

\* The entries of list at the indices S, in the order of the list (the
\* order of getReservesList).
SubSeqOf(list, S) ==
    LET F[i \in 0 .. Len(list)] ==
            IF i = 0 THEN <<>>
            ELSE IF i \in S THEN Append(F[i - 1], list[i]) ELSE F[i - 1]
    IN  F[Len(list)]

\* The per-asset state of an account, as the evaluation reads it.
Positions ==
    {[debts       |-> SubSeqOf(DebtReads, D),
      collaterals |-> SubSeqOf(CollateralReads, C),
      baseUnit    |-> u] :
        D \in SUBSET DOMAIN DebtReads,
        C \in SUBSET DOMAIN CollateralReads,
        u \in {1, 100}}

\* The pairs in the order of the two loops: debts outside, collaterals
\* inside.
Pairs(position) ==
    LET nc == Len(position.collaterals)
    IN  [k \in 1 .. (Len(position.debts) * nc) |->
            <<position.debts[((k - 1) \div nc) + 1],
              position.collaterals[((k - 1) % nc) + 1]>>]

\* No pair at all passes the tests before evaluateProfit.
Skipped_All(d, c) == TRUE

\* The tests before evaluateProfit without the one of the balance.
Skipped_IgnoreBalance(d, c) ==
    \/ d.variableDebt = 0
    \/ d.price = 0
    \/ c.price = 0

\* The tests that leave a pair before evaluateProfit: no variable debt, no
\* price of the debt, no balance of the collateral, no price of it.
Skipped(d, c) ==
    \/ d.variableDebt = 0
    \/ d.price = 0
    \/ c.balance = 0
    \/ c.price = 0

\* The arguments the worker passes to evaluateProfit.
PairInputs(d, c, baseUnit) ==
    [debtAmount          |-> d.variableDebt,
     collateralBalance   |-> c.balance,
     priceDebt           |-> d.price,
     priceCol            |-> c.price,
     baseUnit            |-> baseUnit,
     closeFactorBps      |-> CloseFactorBps,
     liquidationBonusBps |-> c.liquidationBonus,
     dexFeeBps           |-> Some(DexFeeBps),
     extraCostBase       |-> NULL,
     debtDecimals        |-> d.decimals,
     colDecimals         |-> c.decimals]

\* The two loops over the pairs still to evaluate, from the best so far
\* (NULL: none); an exception of evaluateProfit leaves them.
RECURSIVE PickBest(_, _, _)
PickBest(pairs, baseUnit, best) ==
    IF pairs = <<>> THEN Returned(best)
    ELSE LET d == Head(pairs)[1]
             c == Head(pairs)[2]
             r == evaluateProfit(PairInputs(d, c, baseUnit))
         IN  IF Skipped(d, c) THEN PickBest(Tail(pairs), baseUnit, best)
             ELSE IF r.threw THEN Thrown
             ELSE IF r.value.repayAmount = 0
             THEN PickBest(Tail(pairs), baseUnit, best)
             ELSE IF \/ best = NULL
                     \/ FloatGt(r.value.profitUsdApprox, best[1].profitUsd)
             THEN PickBest(Tail(pairs), baseUnit,
                           Some([debtAsset       |-> d.asset,
                                 collateralAsset |-> c.asset,
                                 repayAmount     |-> r.value.repayAmount,
                                 profitUsd       |-> r.value.profitUsdApprox,
                                 profitBase      |-> r.value.profitBase]))
             ELSE PickBest(Tail(pairs), baseUnit, best)

NotesNoAssets == <<"hf<min but no collateral or no debt found">>

NotesNoPair == <<"hf<min but no repayable profitable pair found">>

NotesBest(best) ==
    <<"debtAsset=", best.debtAsset, " repayAmount=", best.repayAmount,
      " profitBase=", best.profitBase>>

\* The profit estimation of an account below minHfWad: what it passes to
\* saveOpportunity, unless evaluateProfit throws.
ProfitEstimation(position) ==
    IF Len(position.collaterals) = 0 \/ Len(position.debts) = 0
    THEN Returned([collateralAsset |-> NULL, estimatedProfitUsd |-> NULL,
                   notes |-> NotesNoAssets])
    ELSE LET picked == PickBest(Pairs(position), position.baseUnit, NULL)
         IN  IF picked.threw THEN Thrown
             ELSE IF picked.value = NULL
             THEN Returned([collateralAsset |-> NULL, estimatedProfitUsd |-> NULL,
                            notes |-> NotesNoPair])
             ELSE LET best == picked.value[1]
                  IN  Returned([collateralAsset    |-> Some(best.collateralAsset),
                                estimatedProfitUsd |-> Some(best.profitUsd),
                                notes              |-> NotesBest(best)])

\* What the profit estimation can end in, over the positions.
Estimations == {ProfitEstimation(position) : position \in Positions}

\* What the loop of tick() saves for a row from the test of its health
\* factor on: nothing at or above minHfWad, else the one record of the
\* profit estimation.
EvaluateAccount(hfWad, position) ==
    IF hfWad >= minHfWad THEN Returned(NULL)
    ELSE LET found == ProfitEstimation(position)
         IN  IF found.threw THEN Thrown ELSE Returned(Some(found.value))

\* The tests of the discovery without the one of the decimals.
Unusable_IgnoreDecimals(d, c, known) ==
    \/ d.variableDebt = 0
    \/ c.balance = 0
    \/ d.price = 0
    \/ c.price = 0

\* The tests of PositionMonitor.evaluateLiquidation that leave a pair before
\* evaluateProfit: no variable debt, no balance of the collateral, no price
\* of either asset, no decimals of either asset in the assets table (known:
\* the assets that getAssetDecimalsMap returns with decimals).
Unusable(d, c, known) ==
    \/ d.variableDebt = 0
    \/ c.balance = 0
    \/ d.price = 0
    \/ c.price = 0
    \/ d.asset \notin known
    \/ c.asset \notin known

\* The two loops of evaluateLiquidation over the pairs still to evaluate,
\* from the opportunities found so far; an exception of evaluateProfit
\* leaves them.
RECURSIVE Opportunities(_, _, _, _, _)
Opportunities(pairs, baseUnit, known, minProfit, found) ==
    IF pairs = <<>> THEN Returned(found)
    ELSE LET d == Head(pairs)[1]
             c == Head(pairs)[2]
             r == evaluateProfit(PairInputs(d, c, baseUnit))
         IN  IF Unusable(d, c, known)
             THEN Opportunities(Tail(pairs), baseUnit, known, minProfit, found)
             ELSE IF r.threw THEN Thrown
             ELSE IF ~FloatGeq(r.value.profitUsdApprox, minProfit)
             THEN Opportunities(Tail(pairs), baseUnit, known, minProfit, found)
             ELSE IF r.value.repayAmount > 0
             THEN Opportunities(Tail(pairs), baseUnit, known, minProfit,
                      Append(found,
                             [debtAsset          |-> d.asset,
                              collateralAsset    |-> c.asset,
                              repayAmount        |-> r.value.repayAmount,
                              estimatedProfitUsd |-> r.value.profitUsdApprox]))
             ELSE Opportunities(Tail(pairs), baseUnit, known, minProfit, found)

\* PositionMonitor.evaluateLiquidation(user) on the per-asset state read
\* for the user.
evaluateLiquidation(position, known, minProfit) ==
    Opportunities(Pairs(position), position.baseUnit, known, minProfit, <<>>)

\* A write that keeps the latest record only.
saveOpportunity_KeepLatest(borrowerId, hf, found) ==
    <<[borrower_id        |-> borrowerId,
       health_factor      |-> hf,
       collateral_asset   |-> found.collateralAsset,
       estimated_profit_usd |-> found.estimatedProfitUsd,
       notes              |-> found.notes]>>

\* A row of liquidation_opportunities: the borrower, the health factor and
\* what the profit estimation found.
saveOpportunity(borrowerId, hf, found) ==
    Append(opps, [borrower_id        |-> borrowerId,
                  health_factor      |-> hf,
                  collateral_asset   |-> found.collateralAsset,
                  estimated_profit_usd |-> found.estimatedProfitUsd,
                  notes              |-> found.notes])

\* A call of tick(): where it stands, the rows it claimed and when, the
\* index of the loop, and hfDb of the row under evaluation.
IdleTick ==
    [pc |-> "idle", due |-> <<>>, i |-> 0, claimedAt |-> 0,
     hf |-> NULL]

InFlight == {"fetch", "batch", "loop", "profit"}

FreeSlots == {t \in Ticks : tick[t].pc = "idle"}

\* tick() is entered in the lowest free slot.
StartTick(t) ==
    /\ t \in FreeSlots
    /\ \A u \in FreeSlots : t <= u
    /\ tick' = [tick EXCEPT ![t] = [IdleTick EXCEPT !.pc = "fetch"]]

\* The first borrower is on the worker's own watchlist; due times are
\* given in the order of the ids (the ids carry no meaning).
InitWorker ==
    /\ mode \in Modes
    /\ now = 0
    /\ store \in [Accounts -> InitRows]
    /\ store[1].last_status = LastStatus(mode)
    /\ \A a, b \in Accounts : a < b => store[a].next_check_at <= store[b].next_check_at
    /\ opps = <<>>
    /\ pstate = "starting"
    /\ tick = [t \in Ticks |-> IdleTick]

\* await tick(): the first tick, before the timer is installed.
FirstTick(t) ==
    /\ pstate = "starting"
    /\ StartTick(t)
    /\ pstate' = "first"
    /\ UNCHANGED <<mode, now, store, opps, providerVars, calc, discovery>>

\* setInterval(() => tick().catch(...), intervalMs): the timer fires.
TimerFire(t) ==
    /\ pstate = "running"
    /\ StartTick(t)
    /\ UNCHANGED <<mode, now, store, opps, pstate, providerVars, calc, discovery>>

\* const due = await fetchDueBorrowers(); if (due.length === 0) return;
FetchDue(t) ==
    /\ tick[t].pc = "fetch"
    /\ \E due \in fetchDueBorrowers :
         tick' = [tick EXCEPT ![t].due = due,
                              ![t].claimedAt = now,
                              ![t].pc = IF due = <<>> THEN "done" ELSE "batch"]
    /\ UNCHANGED <<mode, now, store, opps, pstate, providerVars, calc, discovery>>

\* const data = await getUserAccountDataBatch(users)
BatchRead(t) ==
    /\ tick[t].pc = "batch"
    /\ tick' = [tick EXCEPT ![t].pc = "loop", ![t].i = 1]
    /\ UNCHANGED <<mode, now, store, opps, pstate, providerVars, calc, discovery>>

\* i++ of the for loop; the tick returns after the last row.
Advance(rec) ==
    IF rec.i < Len(rec.due)
    THEN [rec EXCEPT !.i = rec.i + 1, !.pc = "loop", !.hf = NULL]
    ELSE [rec EXCEPT !.pc = "done", !.hf = NULL]

\* One pass of the loop body up to the profit estimation, for row due[i]
\* and its slot account = data[i].
ProcessRowWith(t, account) ==
    /\ tick[t].pc = "loop"
    /\ LET row   == tick[t].due[tick[t].i]
           hfWad == account.healthFactor
           hfDb  == hfToDb(hfWad)
       IN  IF ~account.success
           THEN /\ store' = [store EXCEPT ![row] =
                      updateMonitorState(store[row], NULL, NULL,
                                         Some("multicall-failed"),
                                         NextCheckSeconds(mode))]
                /\ tick' = [tick EXCEPT ![t] = Advance(tick[t])]
           ELSE IF hfDb = NULL
           THEN /\ store' = store
                /\ tick' = [tick EXCEPT ![t] = Advance(tick[t])]
           ELSE /\ store' = [store EXCEPT ![row] =
                      updateMonitorState(store[row], hfDb, NULL, NULL,
                                         NextCheckSeconds(mode))]
                /\ IF hfWad >= minHfWad
                   THEN tick' = [tick EXCEPT ![t] = Advance(tick[t])]
                   ELSE tick' = [tick EXCEPT ![t].pc = "profit", ![t].hf = hfDb]
    /\ UNCHANGED <<mode, now, opps, pstate, providerVars, calc, discovery>>

\* The evaluations recorded or under way.
Evaluations == Len(opps) + Cardinality({u \in Ticks : tick[u].pc = "profit"})

\* The slot data[i] is what the batch read returned for due[i]; the chain
\* is free to report any value, which the model draws when the loop reaches
\* the row.
ProcessRow(t) ==
    \E account \in Slots :
        /\ (account.success /\ account.healthFactor < minHfWad)
              => Evaluations < MaxOpps
        /\ ProcessRowWith(t, account)

\* The same for a tick on its own, which evaluates at most the rows of
\* its batch.
ProcessAnyRow(t) == \E account \in Slots : ProcessRowWith(t, account)

\* The profit estimation of a liquidatable row, ending in saveOpportunity.
EvaluateRow(t) ==
    /\ tick[t].pc = "profit"
    /\ \E found \in Estimations :
         /\ ~found.threw
         /\ opps' = saveOpportunity(tick[t].due[tick[t].i], tick[t].hf, found.value)
    /\ tick' = [tick EXCEPT ![t] = Advance(tick[t])]
    /\ UNCHANGED <<mode, now, store, pstate, providerVars, calc, discovery>>

\* An await of the tick rejects; nothing in tick() catches it, so the
\* promise of tick() rejects and the loop is left.
Rejects(t) ==
    /\ tick' = [tick EXCEPT ![t].pc = "failed"]
    /\ UNCHANGED <<mode, now, store, opps, pstate, providerVars, calc, discovery>>

\* pool.query of fetchDueBorrowers rejects.
FetchFails(t) ==
    /\ tick[t].pc = "fetch"
    /\ Rejects(t)

\* multicall.aggregate3 rejects, or decodeFunctionResult throws.
BatchFails(t) ==
    /\ tick[t].pc = "batch"
    /\ Rejects(t)

\* pool.query of updateMonitorState rejects.
UpdateFails(t) ==
    /\ tick[t].pc = "loop"
    /\ Rejects(t)

\* A read of getUserCollaterals or getUserDebts rejects.
AssetReadFails(t) ==
    /\ tick[t].pc = "profit"
    /\ Rejects(t)

\* oracle.getAssetsPrices or BASE_CURRENCY_UNIT rejects.
PriceReadFails(t) ==
    /\ tick[t].pc = "profit"
    /\ Rejects(t)

\* evaluateProfit throws (computeMaxRepay rejects its inputs).
EvaluateThrows(t) ==
    /\ tick[t].pc = "profit"
    /\ \E found \in Estimations : found.threw
    /\ Rejects(t)

\* pool.query of saveOpportunity rejects.
SaveFails(t) ==
    /\ tick[t].pc = "profit"
    /\ Rejects(t)

\* The promise of tick() settles: the first tick installs the timer or
\* makes runWatchlistMonitor reject; a later one is caught and logged.
TickSettles(t) ==
    /\ tick[t].pc \in {"done", "failed"}
    /\ tick' = [tick EXCEPT ![t] = IdleTick]
    /\ pstate' = IF pstate = "first"
                 THEN IF tick[t].pc = "done" THEN "running" ELSE "exited"
                 ELSE pstate
    /\ UNCHANGED <<mode, now, store, opps, providerVars, calc, discovery>>

\* Time passes.
ClockAdvance ==
    /\ now + ClockStep <= MaxNow
    /\ now' = now + ClockStep
    /\ UNCHANGED <<mode, store, opps, pstate, tick, providerVars, calc, discovery>>

NextWorker ==
    \/ ClockAdvance
    \/ \E t \in Ticks :
        \/ FirstTick(t)
        \/ TimerFire(t)
        \/ FetchDue(t)
        \/ FetchFails(t)
        \/ BatchRead(t)
        \/ BatchFails(t)
        \/ ProcessRow(t)
        \/ UpdateFails(t)
        \/ EvaluateRow(t)
        \/ AssetReadFails(t)
        \/ PriceReadFails(t)
        \/ EvaluateThrows(t)
        \/ SaveFails(t)
        \/ TickSettles(t)

\* Several worker processes of one tier over one store, each past its
\* start-up and running one tick at a time: slot w holds the tick of
\* process w, entered when its timer fires.
InitFleet ==
    /\ mode \in Modes
    /\ now = 0
    /\ store \in [Accounts -> InitRows]
    /\ store[1].last_status = LastStatus(mode)
    /\ \A a, b \in Accounts : a < b => store[a].next_check_at <= store[b].next_check_at
    /\ opps = <<>>
    /\ pstate = "running"
    /\ tick = [t \in Ticks |-> IdleTick]

WorkerTick(w) ==
    /\ tick[w].pc = "idle"
    /\ tick' = [tick EXCEPT ![w] = [IdleTick EXCEPT !.pc = "fetch"]]
    /\ UNCHANGED <<mode, now, store, opps, pstate, providerVars, calc, discovery>>

NextFleet ==
    \/ ClockAdvance
    \/ \E w \in Ticks :
        \/ WorkerTick(w)
        \/ FetchDue(w)
        \/ BatchRead(w)
        \/ ProcessRow(w)
        \/ EvaluateRow(w)
        \/ TickSettles(w)

\* One worker past its start-up whose reads and writes all succeed: the
\* timer fires again and again and each tick runs to its end.
QueueStep ==
    \/ WorkerTick(1)
    \/ FetchDue(1)
    \/ BatchRead(1)
    \/ ProcessRow(1)
    \/ EvaluateRow(1)
    \/ TickSettles(1)

NextQueue ==
    \/ ClockAdvance
    \/ QueueStep

\* One tick on its own, from the fire of the timer to the end of the
\* call, with nothing running besides it.
InitTick ==
    /\ mode \in Modes
    /\ now \in {0, ClockStep}
    /\ store \in [Accounts -> InitRows]
    /\ \A a, b \in Accounts : a < b => store[a].next_check_at <= store[b].next_check_at
    /\ opps = <<>>
    /\ pstate = "running"
    /\ tick = [t \in Ticks |-> IF t = 1 THEN [IdleTick EXCEPT !.pc = "fetch"]
                                        ELSE IdleTick]

NextTick ==
    \/ FetchDue(1)
    \/ FetchFails(1)
    \/ BatchRead(1)
    \/ BatchFails(1)
    \/ ProcessAnyRow(1)
    \/ UpdateFails(1)
    \/ EvaluateRow(1)
    \/ AssetReadFails(1)
    \/ PriceReadFails(1)
    \/ EvaluateThrows(1)
    \/ SaveFails(1)
    \/ TickSettles(1)

\* A stop request (SIGTERM, as start.sh sends it with kill): the worker
\* installs no handler, so the process ends at once and every tick under
\* way is cut where it stands.
Stop ==
    /\ pstate = "running"
    /\ pstate' = "stopped"
    /\ tick' = [t \in Ticks |->
                  IF tick[t].pc = "idle" THEN tick[t]
                  ELSE [tick[t] EXCEPT !.pc = "killed"]]
    /\ UNCHANGED <<mode, now, store, opps, providerVars, calc, discovery>>

\* One tick on its own and the stop request.
NextStop ==
    \/ NextTick
    \/ Stop

\* Each specification runs one part of the program; the variables of the
\* other parts stay as follows.
NoProvider ==
    /\ activeIndex = 0
    /\ call = <<>>

NoWorker ==
    /\ mode = "highfreq"
    /\ now = 0
    /\ store = <<>>
    /\ opps = <<>>
    /\ pstate = "starting"
    /\ tick = <<>>

NoCalc == calc = <<>>

NoDiscovery == discovery = <<>>

(***************************************************************************)
(* Functions called on their own                                           *)
(***************************************************************************)

\* A call as it is entered, and as it has ended.
Called(fn, args) == [fn |-> fn, args |-> args, pc |-> "called", ret |-> NULL]

Ended(outcome) ==
    [calc EXCEPT !.pc = IF outcome.threw THEN "threw" ELSE "returned",
                 !.ret = outcome.value]

\* Number of accounts of one batch read.
MaxUsers == 3

\* The return data of getUserAccountData, six words: totalCollateralBase,
\* totalDebtBase, availableBorrowsBase, currentLiquidationThreshold, ltv,
\* healthFactor.
AccountDataA == <<50, 40, 0, 8, 7, (98 * WAD) \div 100>>

AccountDataB == <<90, 10, 5, 8, 7, (103 * WAD) \div 100>>

\* The data of a revert, and no data at all ("0x").
RevertData == <<1>>

NoData == <<>>

\* What aggregate3 may report for one sub-call: a failure (allowFailure),
\* a success with the return data of the pool, or a success with data that
\* are no return data of getUserAccountData (the call of an address that
\* holds no code succeeds with "0x").
SubResults ==
    { [success |-> FALSE, returnData |-> RevertData],
      [success |-> TRUE, returnData |-> AccountDataA],
      [success |-> TRUE, returnData |-> AccountDataB],
      [success |-> TRUE, returnData |-> NoData] }

\* iface.decodeFunctionResult("getUserAccountData", data) throws on data
\* shorter than the six words of the result.
Decodable(data) == Len(data) >= 6

\* The callback of results.map: null for a failed sub-call, otherwise
\* decoded[0], decoded[1] and decoded[5].
MapResult(r) ==
    IF ~r.success THEN NULL
    ELSE Some([totalCollateralBase |-> r.returnData[1],
               totalDebtBase       |-> r.returnData[2],
               healthFactor        |-> r.returnData[6]])

\* The callback throws for r (decodeFunctionResult throws).
MapThrows(r) == r.success /\ ~Decodable(r.returnData)

\* A batch read that leaves the failed sub-calls out of its result.
getUserAccountDataBatch_DropFailed(users, results) ==
    LET ok == SelectSeq(results, LAMBDA r : r.success)
    IN  IF \E i \in 1 .. Len(ok) : MapThrows(ok[i])
        THEN Thrown
        ELSE Returned([i \in 1 .. Len(ok) |-> MapResult(ok[i])])

\* getUserAccountDataBatch(users), given what multicall.aggregate3 returned
\* for the calls built from users: results.map(callback); an exception of
\* the callback leaves the function.
getUserAccountDataBatch(users, results) ==
    IF \E i \in 1 .. Len(results) : MapThrows(results[i])
    THEN Thrown
    ELSE Returned([i \in 1 .. Len(results) |-> MapResult(results[i])])

\* The batch reads of up to MaxUsers accounts: aggregate3 returns one result
\* per call, in the order of the calls.
BatchArgs ==
    UNION { [users : {[i \in 1 .. k |-> i]}, results : [1 .. k -> SubResults]] :
                k \in 0 .. MaxUsers }

\* Number of rows of the store the due query is run on.
MaxRows == 3

\* The rows the due query may meet: of either network, on either watchlist,
\* due now, due at the next step of the clock or later.
StoreRows ==
    [chain_id : ChainIds,
     last_status : {"highfreq-watchlist", "normal-watchlist"},
     next_check_at : {0, ClockStep, 2 * ClockStep},
     last_check_at : {0},
     last_health_factor : {hfToDb((103 * WAD) \div 100)},
     last_error : {NULL}]

\* The health factors to classify: every fixed-point value from 0.9 to 1.1,
\* none at all (0) and the one of an account without debt.
ClassifyArgs == ((9 * WAD) \div 10) .. ((11 * WAD) \div 10) \cup {0, NoDebtHf}

\* The arguments of computeMaxRepay: amounts, prices and basis points on
\* both sides of zero, the amounts in whole tokens or in tenths.
RepayArgs ==
    [debtAmount          : {-3, 0, 1, 7, 1000},
     closeFactorBps      : {-5000, 0, 5000, BPS},
     collateralBalance   : {-1, 0, 1, 7, 20},
     priceDebt           : {-1, 0, 1, 3},
     priceCol            : {-1, 0, 1, 3},
     liquidationBonusBps : {-1, 0, 10500, 11000},
     debtDecimals        : 0 .. MaxDecimals,
     colDecimals         : 0 .. MaxDecimals]

\* The arguments of evaluateProfit as its callers build them: unsigned
\* values read from the chain, the cost model given or left out.
ProfitArgs ==
    [debtAmount          : {0, 1, 7, 1000},
     closeFactorBps      : {5000, BPS},
     collateralBalance   : {0, 1, 20},
     priceDebt           : {0, 1, 3},
     priceCol            : {0, 1, 3},
     liquidationBonusBps : {0, 10500, 11000},
     debtDecimals        : 0 .. MaxDecimals,
     colDecimals         : 0 .. MaxDecimals,
     baseUnit            : {1, 100},
     dexFeeBps           : {NULL, Some(30)},
     extraCostBase       : {NULL, Some(2)}]

\* The accounts to evaluate: a health factor below or at the liquidation
\* boundary, and the per-asset state.
Reverse(s) == [k \in 1 .. Len(s) |-> s[Len(s) + 1 - k]]

\* The positions with the reserves in the order of the list and in the
\* opposite order.
OrderedPositions ==
    Positions \cup {[debts       |-> Reverse(p.debts),
                     collaterals |-> Reverse(p.collaterals),
                     baseUnit    |-> p.baseUnit] : p \in Positions}

AccountArgs ==
    [healthFactor : {(98 * WAD) \div 100, minHfWad}, position : OrderedPositions]

\* The settings the start-up reads, and the environments: the settings
\* that are given (RPC_URLS given: it names at least one endpoint).
Settings ==
    {"RPC_URLS", "CHAIN_ID", "AAVE_PROTOCOL_DATA_PROVIDER",
     "AAVE_LENDING_POOL", "AAVE_ORACLE"}

Environments == SUBSET Settings

\* process.env.X || "": the address a contract is built on.
AddressOf(env, setting) == IF setting \in env THEN setting ELSE ""

\* new RpcProvider(): throws without endpoints or without chain id.
RpcProviderConstructor(env) ==
    IF "RPC_URLS" \notin env THEN Thrown
    ELSE IF "CHAIN_ID" \notin env THEN Thrown
    ELSE Returned("provider")

\* runWatchlistMonitor up to its first tick: it throws, or it goes on to
\* `await tick()` with the contracts built on these addresses (a contract
\* on "" is built without complaint; its address is resolved when it is
\* first called).
StartUp(env) ==
    IF RpcProviderConstructor(env).threw THEN Thrown
    ELSE IF "AAVE_PROTOCOL_DATA_PROVIDER" \notin env THEN Thrown
    ELSE Returned([dataProvider |-> AddressOf(env, "AAVE_PROTOCOL_DATA_PROVIDER"),
                   aavePool     |-> AddressOf(env, "AAVE_LENDING_POOL"),
                   oracle       |-> AddressOf(env, "AAVE_ORACLE")])

\* The assets of the reads.
Assets ==
    {DebtReads[k].asset : k \in DOMAIN DebtReads}
        \cup {CollateralReads[k].asset : k \in DOMAIN CollateralReads}

\* The arguments of evaluateLiquidation: the state of the account, the
\* assets table with every asset or with one asset left out, and
\* MIN_PROFIT_USD set to 10 or left at its default.
LiquidationArgs ==
    [position  : OrderedPositions,
     known     : {Assets} \cup {Assets \ {a} : a \in Assets},
     minProfit : {Number(10), Number(minProfitUSD)}]

\* A call of a function of its arguments only: no worker is running.
InitCalcArgs ==
    /\ NoWorker
    /\ \/ \E a \in BatchArgs : calc = Called("getUserAccountDataBatch", a)
       \/ \E hf \in ClassifyArgs : calc = Called("Classify", hf)
       \/ \E a \in RepayArgs : calc = Called("computeMaxRepay", a)
       \/ \E a \in ProfitArgs : calc = Called("evaluateProfit", a)
       \/ \E a \in AccountArgs : calc = Called("EvaluateAccount", a)
       \/ \E env \in Environments : calc = Called("StartUp", env)
       \/ \E a \in LiquidationArgs : calc = Called("evaluateLiquidation", a)

\* A call of the due query: a worker of either mode, and a store.
InitCalcStore ==
    /\ mode \in Modes
    /\ now \in {0, ClockStep}
    /\ store \in [1 .. MaxRows -> StoreRows]
    /\ opps = <<>>
    /\ pstate = "starting"
    /\ tick = <<>>
    /\ calc = Called("fetchDueBorrowers", <<>>)

InitCalc == InitCalcArgs \/ InitCalcStore

\* The call of fetchDueBorrowers ends: the rows of the query.
CallFetchDueBorrowers ==
    /\ calc.fn = "fetchDueBorrowers"
    /\ calc.pc = "called"
    /\ \E due \in fetchDueBorrowers : calc' = Ended(Returned(due))
    /\ UNCHANGED <<providerVars, workerVars, discovery>>

\* The call of getUserAccountDataBatch ends.
CallGetUserAccountDataBatch ==
    /\ calc.fn = "getUserAccountDataBatch"
    /\ calc.pc = "called"
    /\ calc' = Ended(getUserAccountDataBatch(calc.args.users, calc.args.results))
    /\ UNCHANGED <<providerVars, workerVars, discovery>>

\* The classification of one health factor ends.
CallClassify ==
    /\ calc.fn = "Classify"
    /\ calc.pc = "called"
    /\ calc' = Ended(Returned(Classify(calc.args)))
    /\ UNCHANGED <<providerVars, workerVars, discovery>>

\* The call of computeMaxRepay ends.
CallComputeMaxRepay ==
    /\ calc.fn = "computeMaxRepay"
    /\ calc.pc = "called"
    /\ calc' = Ended(computeMaxRepay(calc.args))
    /\ UNCHANGED <<providerVars, workerVars, discovery>>

\* The call of evaluateProfit ends.
CallEvaluateProfit ==
    /\ calc.fn = "evaluateProfit"
    /\ calc.pc = "called"
    /\ calc' = Ended(evaluateProfit(calc.args))
    /\ UNCHANGED <<providerVars, workerVars, discovery>>

\* The evaluation of one account ends.
CallEvaluateAccount ==
    /\ calc.fn = "EvaluateAccount"
    /\ calc.pc = "called"
    /\ calc' = Ended(EvaluateAccount(calc.args.healthFactor, calc.args.position))
    /\ UNCHANGED <<providerVars, workerVars, discovery>>

\* The start-up of the worker ends: in an exception or in the first tick.
CallStartUp ==
    /\ calc.fn = "StartUp"
    /\ calc.pc = "called"
    /\ calc' = Ended(StartUp(calc.args))
    /\ UNCHANGED <<providerVars, workerVars, discovery>>

\* The call of evaluateLiquidation ends.
CallEvaluateLiquidation ==
    /\ calc.fn = "evaluateLiquidation"
    /\ calc.pc = "called"
    /\ calc' = Ended(evaluateLiquidation(calc.args.position, calc.args.known,
                                         calc.args.minProfit))
    /\ UNCHANGED <<providerVars, workerVars, discovery>>

NextCalc ==
    \/ CallGetUserAccountDataBatch
    \/ CallClassify
    \/ CallFetchDueBorrowers
    \/ CallComputeMaxRepay
    \/ CallEvaluateProfit
    \/ CallEvaluateAccount
    \/ CallStartUp
    \/ CallEvaluateLiquidation

(***************************************************************************)
(* PositionMonitor.startMonitoring: the discovery loop                     *)
(***************************************************************************)

\* Number of calls of checkPositions that may be pending at once.
MaxChecks == 2

\* The events of the loop are kept, up to MaxEvents of them.
MaxEvents == 8

Checks == 1 .. MaxChecks

\* A loop without the test of the flag.
Busy_Never(running) == FALSE

\* if (running) return;
Busy(running) == running

\* let running = false, no call of checkPositions yet; phase is where
\* startMonitoring stands: before the first check, awaiting it, with the
\* timer installed, rejected, or ended with the process.
InitDiscovery ==
    discovery = [running |-> FALSE,
                 phase   |-> "starting",
                 check   |-> [k \in Checks |-> "idle"],
                 events  |-> <<>>]

\* checkPositions() is entered: it returns at once when the flag is set,
\* else sets the flag and awaits findLiquidatablePositions (in the lowest
\* free slot).
checkPositions(phase) ==
    IF Busy(discovery.running)
    THEN discovery' = [discovery EXCEPT !.phase = phase,
                                        !.events = Append(@, "dropped")]
    ELSE \E k \in Checks :
            /\ discovery.check[k] = "idle"
            /\ \A j \in Checks : discovery.check[j] = "idle" => k <= j
            /\ discovery' = [discovery EXCEPT !.phase = phase,
                                              !.running = TRUE,
                                              !.check[k] = "finding",
                                              !.events = Append(@, "started")]

\* await checkPositions(): the first execution.
FirstCheck ==
    /\ discovery.phase = "starting"
    /\ checkPositions("first")
    /\ UNCHANGED <<providerVars, workerVars, calc>>

\* setInterval(checkPositions, interval): the timer fires.
CheckFire ==
    /\ discovery.phase = "timer"
    /\ Len(discovery.events) < MaxEvents
    /\ checkPositions("timer")
    /\ UNCHANGED <<providerVars, workerVars, calc>>

\* findLiquidatablePositions resolves, with positions or with none (an
\* error inside it gives none), and the outcome is logged;
\* finally { running = false }.  The first check installs the timer.
CheckEnds(k) ==
    /\ discovery.check[k] = "finding"
    /\ \E outcome \in {"found", "none"} :
           discovery' = [discovery EXCEPT !.running = FALSE,
                                          !.check[k] = "idle",
                                          !.phase = "timer",
                                          !.events = Append(@, outcome)]
    /\ UNCHANGED <<providerVars, workerVars, calc>>

\* The try block is left by an exception; finally { running = false }.
\* The promise of checkPositions rejects: startMonitoring rejects when it
\* is the first check; a later one is a rejection nobody handles, which
\* ends the process or is reported only, as the runtime is set.
CheckFails(k) ==
    /\ discovery.check[k] = "finding"
    /\ \E phase \in IF discovery.phase = "first" THEN {"rejected"}
                                                   ELSE {"timer", "exited"} :
           discovery' = [discovery EXCEPT !.running = FALSE,
                                          !.check[k] = "idle",
                                          !.phase = phase,
                                          !.events = Append(@, "failed")]
    /\ UNCHANGED <<providerVars, workerVars, calc>>

NextDiscovery ==
    \/ FirstCheck
    \/ CheckFire
    \/ \E k \in Checks :
        \/ CheckEnds(k)
        \/ CheckFails(k)

(***************************************************************************)
(* Specifications                                                          *)
(***************************************************************************)

Init == InitWorker /\ NoProvider /\ NoCalc /\ NoDiscovery

Next == NextWorker

Spec == Init /\ [][Next]_vars

ProviderInit == InitProvider /\ NoWorker /\ NoCalc /\ NoDiscovery

ProviderSpec == ProviderInit /\ [][NextProvider]_vars

\* Every backend attempt ends: a call that waits for a backend gets its
\* result or its error.
ProviderLiveSpec ==
    /\ ProviderSpec
    /\ \A c \in Calls : WF_vars(BackendResult(c) \/ BackendError(c))

CalcInit == InitCalc /\ NoProvider /\ NoDiscovery

CalcSpec == CalcInit /\ [][NextCalc]_vars

TickInit == InitTick /\ NoProvider /\ NoCalc /\ NoDiscovery

TickSpec == TickInit /\ [][NextTick]_vars

FleetInit == InitFleet /\ NoProvider /\ NoCalc /\ NoDiscovery

FleetSpec == FleetInit /\ [][NextFleet]_vars

StopSpec == TickInit /\ [][NextStop]_vars

\* The discovery loop; every check comes to its end.
DiscoveryInit == InitDiscovery /\ NoProvider /\ NoWorker /\ NoCalc

DiscoverySpec ==
    /\ DiscoveryInit
    /\ [][NextDiscovery]_vars
    /\ \A k \in Checks : WF_vars(CheckEnds(k) \/ CheckFails(k))

\* setInterval keeps firing and every await of a tick settles.
QueueSpec == FleetInit /\ [][NextQueue]_vars /\ WF_vars(QueueStep)

(***************************************************************************)
(* Properties of the watchlist worker (under Spec)                         *)
(***************************************************************************)

\* The row of the store that tick t handles in its loop.
RowOf(t) == tick[t].due[tick[t].i]

\* C1: at every moment at most one tick of the worker is in flight; a timer
\* fire that arrives while a tick is running starts no second tick.
C1_AtMostOneTickInFlight ==
    Cardinality({t \in Ticks : tick[t].pc \in InFlight}) <= 1

\* The rows of its batch that the loop of a tick has reached.
RowsReached(rec) == 1 .. rec.i

\* C2: a failure while one claimed account is processed does not keep the
\* remaining claimed accounts of the tick from being processed: when the
\* tick has ended on a failure inside the loop, the loop has reached every
\* row of the batch.
C2_FailureSparesRemainingRows ==
    \A t \in Ticks :
        (tick[t].pc = "failed" /\ tick[t].i >= 1)
            => \A k \in 1 .. Len(tick[t].due) : k \in RowsReached(tick[t])

\* C3: the update made for a row whose slot is null (error only, no health
\* factor, no status) leaves last_health_factor and last_status of the row
\* as they were.
C3_ErrorOnlyKeepsHealthAndTier ==
    [][\A t \in Ticks :
          ProcessRowWith(t, NullSlot)
              => /\ store'[RowOf(t)].last_health_factor
                        = store[RowOf(t)].last_health_factor
                 /\ store'[RowOf(t)].last_status = store[RowOf(t)].last_status]_vars

\* C4: once the tick that claimed an account has completed, the due query
\* returns the account again only when a next_check_at set after the claim
\* has elapsed, whatever health factor was read for it.
C4_NotReclaimedBeforeNewDueTime ==
    \A t \in Ticks :
        tick[t].pc = "done"
            => \A k \in 1 .. Len(tick[t].due) :
                   IsDue(tick[t].due[k])
                       => store[tick[t].due[k]].next_check_at > tick[t].claimedAt

\* C5: for every row whose slot was read successfully the tick records the
\* health factor read (none when it is not representable), sets
\* next_check_at = now + the interval of the tier and clears last_error.
C5_SuccessfulReadIsRecorded ==
    [][\A t \in Ticks : \A account \in Slots :
          (account.success /\ ProcessRowWith(t, account))
              => /\ store'[RowOf(t)].last_health_factor = hfToDb(account.healthFactor)
                 /\ store'[RowOf(t)].next_check_at = now + NextCheckSeconds(mode)
                 /\ store'[RowOf(t)].last_error = NULL]_vars

\* C6: after the tick has read the health factor of a row, the persisted
\* tier of the row is the band of that health factor.
C6_TierFollowsHealth ==
    [][\A t \in Ticks : \A account \in Slots :
          (account.success /\ ProcessRowWith(t, account))
              => store'[RowOf(t)].last_status = Classify(account.healthFactor)]_vars

(***************************************************************************)
(* Properties of RotatingRpcProvider (under ProviderSpec)                  *)
(***************************************************************************)

\* Call c gets an answer in this step.
Answered(c) == call[c].pc = "wait" /\ Len(call'[c].log) = Len(call[c].log) + 1

\* The answer call c gets in this step.
Answer(c) == call'[c].log[Len(call'[c].log)]

\* C7: a call that finds activeIndex = 0, is rate-limited by backend 0 and
\* answered by backend 1 returns the result of backend 1 and leaves
\* activeIndex = 1; a call entered while activeIndex = 1 asks backend 1
\* first and, when backend 1 answers, has asked no other backend.
C7_SwitchIsSticky ==
    [][\A c \in Calls :
          /\ (/\ Answered(c)
              /\ call'[c].log = <<[idx |-> 0, out |-> "rl"], [idx |-> 1, out |-> "ok"]>>)
                 => /\ call'[c].pc = "done"
                    /\ call'[c].result = Some(1)
                    /\ activeIndex' = 1
          /\ (call[c].pc = "idle" /\ call'[c].pc = "wait" /\ activeIndex = 1)
                 => call'[c].idx = 1
          /\ (/\ Answered(c)
              /\ call[c].startActive = 1
              /\ call[c].log = <<>>
              /\ Answer(c).out = "ok")
                 => /\ call'[c].log = <<[idx |-> 1, out |-> "ok"]>>
                    /\ call'[c].result = Some(1)
                    /\ activeIndex' = 1]_vars

\* A first call has switched from backend 0 to backend 1 and a call entered
\* after it has been answered by backend 1 at once.
C7_Witness ==
    \E c, d \in Calls :
        /\ call[c].pc = "done"
        /\ call[c].log = <<[idx |-> 0, out |-> "rl"], [idx |-> 1, out |-> "ok"]>>
        /\ call[d].pc = "done"
        /\ call[d].startActive = 1
        /\ call[d].log = <<[idx |-> 1, out |-> "ok"]>>

\* Every one of the NBackends answers call c has got is a rate-limit answer.
AllRateLimited(rec) ==
    /\ Len(rec.log) = NBackends
    /\ \A k \in 1 .. NBackends : rec.log[k].out = "rl"

\* C8: a call that every backend answers with a rate-limit failure fails
\* with the error it caught last, and none of its steps writes activeIndex:
\* unless another call wrote it meanwhile, activeIndex is what it was when
\* the call was entered.
C8_ExhaustedRotation ==
    [][\A c \in Calls :
          (Answered(c) /\ AllRateLimited(call'[c]))
              => /\ call'[c].pc = "failed"
                 /\ call'[c].error = call'[c].seen
                 /\ call'[c].error # NULL
                 /\ call'[c].error[1] \in RateLimitErrors
                 /\ activeIndex' = activeIndex
                 /\ ~call'[c].disturbed => activeIndex' = call'[c].startActive]_vars

\* A call has failed after a full rotation of rate-limit answers that began
\* at a backend other than 0.
C8_Witness ==
    \E c \in Calls :
        /\ call[c].pc = "failed"
        /\ AllRateLimited(call[c])
        /\ ~call[c].disturbed
        /\ call[c].startActive # 0

\* C9: an answer that is an error of another class than rate-limiting is
\* rethrown at once: the call fails with that error in the same step,
\* activeIndex is not written, and a failed call asks no further backend.
C9_OtherErrorsAreRethrown ==
    [][\A c \in Calls :
          /\ (Answered(c) /\ Answer(c).out = "other")
                 => /\ call'[c].pc = "failed"
                    /\ call'[c].error = call'[c].seen
                    /\ call'[c].error # NULL
                    /\ call'[c].error[1] \in OtherErrors
                    /\ activeIndex' = activeIndex
          /\ call[c].pc = "failed"
                 => (call'[c] = IdleCall \/ call'[c] = call[c])]_vars

\* A call has failed on an error of another class at its second backend,
\* with a backend left to try.
C9_Witness ==
    \E c \in Calls :
        /\ call[c].pc = "failed"
        /\ Len(call[c].log) = 2
        /\ call[c].log[2].out = "other"
        /\ NBackends > 2

\* C10: activeIndex changes only in a step in which a backend answers a
\* call with a result, and then to the index of that backend; no failure
\* writes it.
C10_ActiveOnlyOnSuccess ==
    [][activeIndex' # activeIndex
          => \E c \in Calls :
                 /\ Answered(c)
                 /\ Answer(c) = [idx |-> activeIndex', out |-> "ok"]
                 /\ call'[c].pc = "done"
                 /\ call'[c].result = Some(activeIndex')]_vars

\* activeIndex has left its initial value while a call that was rate-limited
\* is still under way.
C10_Witness ==
    /\ activeIndex # 0
    /\ \E c \in Calls : call[c].pc = "wait" /\ call[c].lastErr # NULL

\* C11: a call makes at most NBackends attempts, in the cyclic order that
\* begins at the activeIndex it found on entry (entry, entry + 1, ... mod
\* NBackends), so that no backend is asked twice, and makes no attempt after
\* a backend has answered with a result.
C11_OneRotationInOrder ==
    \A c \in Calls :
        /\ Len(call[c].log) <= NBackends
        /\ \A k \in 1 .. Len(call[c].log) :
               /\ call[c].log[k].idx = HopIndex(call[c].startActive, k - 1)
               /\ k < Len(call[c].log) => call[c].log[k].out # "ok"
        /\ call[c].pc = "wait"
               => call[c].idx = HopIndex(call[c].startActive, call[c].hop)

(***************************************************************************)
(* Properties of the functions called on their own (under CalcSpec)        *)
(***************************************************************************)

\* The call of fn has returned.
HasReturned(fn) == calc.fn = fn /\ calc.pc = "returned"

\* The call of fn has ended, in a value or in an exception.
HasEnded(fn) == calc.fn = fn /\ calc.pc \in {"returned", "threw"}

\* The snapshot decoded from the return data of one sub-call.
DecodedFrom(data) ==
    [totalCollateralBase |-> data[1], totalDebtBase |-> data[2],
     healthFactor |-> data[6]]

\* C12: the batch read of k accounts returns k slots in the order of the
\* request; slot i is null exactly when sub-call i failed and otherwise
\* carries the values decoded from sub-call i; failed sub-calls do not make
\* the batch read fail (it returns whenever the data of the sub-calls that
\* succeeded are return data of the pool).
C12_OneSlotPerAccount ==
    HasEnded("getUserAccountDataBatch") =>
        LET users   == calc.args.users
            results == calc.args.results
        IN  /\ (\A i \in 1 .. Len(results) :
                    results[i].success => Decodable(results[i].returnData))
                   => calc.pc = "returned"
            /\ calc.pc = "returned" =>
                   /\ Len(calc.ret) = Len(users)
                   /\ \A i \in 1 .. Len(users) :
                          /\ (calc.ret[i] = NULL) <=> ~results[i].success
                          /\ results[i].success =>
                                 calc.ret[i] = Some(DecodedFrom(results[i].returnData))

\* Three accounts were read, the second sub-call failed: one null slot at
\* that position and two decoded snapshots.
C12_Witness ==
    /\ HasReturned("getUserAccountDataBatch")
    /\ Len(calc.args.users) = 3
    /\ ~calc.args.results[2].success
    /\ calc.ret[2] = NULL
    /\ calc.ret[1] = Some(DecodedFrom(AccountDataA))
    /\ calc.ret[3] = Some(DecodedFrom(AccountDataB))

\* C13: when a sub-call is reported as a success but its return data cannot
\* be decoded, the batch read returns, with null in the slot of that account
\* and the decoded snapshot (or null, for a failed sub-call) in every other
\* slot.
C13_DecodeFailureIsOneNullSlot ==
    (/\ HasEnded("getUserAccountDataBatch")
     /\ \E i \in 1 .. Len(calc.args.results) : MapThrows(calc.args.results[i]))
        => /\ calc.pc = "returned"
           /\ Len(calc.ret) = Len(calc.args.users)
           /\ \A i \in 1 .. Len(calc.args.results) :
                  LET r == calc.args.results[i]
                  IN  calc.ret[i] = IF r.success /\ Decodable(r.returnData)
                                    THEN Some(DecodedFrom(r.returnData))
                                    ELSE NULL

\* The rows of the store that are due for the worker: of its network, on
\* its watchlist, with next_check_at <= now.
DueRows ==
    {a \in DOMAIN store :
        /\ store[a].chain_id = chainId
        /\ store[a].last_status = LastStatus(mode)
        /\ store[a].next_check_at <= now}

\* C14: the due query returns at most BatchSize rows, each of them due for
\* the worker (its network, its watchlist, next_check_at <= now) and none
\* twice, in ascending order of next_check_at; a due row is left out only
\* when BatchSize rows were returned, and then none of the rows returned has
\* a later next_check_at than the row left out.
C14_OldestDueFirst ==
    HasReturned("fetchDueBorrowers") =>
        LET due == calc.ret
        IN  /\ Len(due) <= BatchSize
            /\ \A i \in 1 .. Len(due) : due[i] \in DueRows
            /\ \A i, j \in 1 .. Len(due) :
                   i < j => /\ due[i] # due[j]
                            /\ store[due[i]].next_check_at <= store[due[j]].next_check_at
            /\ \A a \in DueRows \ {due[i] : i \in 1 .. Len(due)} :
                   /\ Len(due) = BatchSize
                   /\ \A i \in 1 .. Len(due) :
                          store[due[i]].next_check_at <= store[a].next_check_at

\* The query has returned BatchSize rows with different due times and has
\* left out a due row.
C14_Witness ==
    /\ HasReturned("fetchDueBorrowers")
    /\ Len(calc.ret) = BatchSize
    /\ store[calc.ret[1]].next_check_at < store[calc.ret[BatchSize]].next_check_at
    /\ DueRows \ {calc.ret[i] : i \in 1 .. BatchSize} # {}

\* The tier of a fixed-point health factor by the bands of the thresholds:
\* closed below, open above.
TierOf(hf) ==
    IF hf < minHealthFactor THEN "liquidatable"
    ELSE IF hf < highFrequencyHealthFactorCheck THEN "highfreq-watchlist"
    ELSE IF hf < minHealthFactorThreshold THEN "normal-watchlist"
    ELSE "healthy"

\* C15: every fixed-point health factor, the three thresholds included, is
\* given the one tier of its band: below 1 liquidatable, from 1 up to the
\* high-frequency mark high-frequency watch, from there up to the watch
\* threshold normal watch, and healthy from the watch threshold on.
C15_ClassifierFollowsBands ==
    HasReturned("Classify") => calc.ret = TierOf(calc.args)


\* C16: a call of computeMaxRepay with a price of the debt, a price of the
\* collateral, a liquidation bonus or a collateral balance that is zero or
\* negative ends in an exception and returns no value (so never 0); a call
\* that returns has divided by a positive divisor only.
C16_InvalidInputThrows ==
    HasEnded("computeMaxRepay") =>
        /\ (\/ calc.args.priceDebt <= 0
            \/ calc.args.priceCol <= 0
            \/ calc.args.liquidationBonusBps <= 0
            \/ calc.args.collateralBalance <= 0)
              => (calc.pc = "threw" /\ calc.ret = NULL)
        /\ calc.pc = "returned"
              => /\ BPS > 0
                 /\ calc.args.priceDebt * calc.args.liquidationBonusBps
                       * pow10(calc.args.colDecimals) > 0

\* A call with prices and bonus positive and no collateral balance threw.
C16_Witness ==
    /\ HasEnded("computeMaxRepay")
    /\ calc.args.priceDebt > 0
    /\ calc.args.priceCol > 0
    /\ calc.args.liquidationBonusBps > 0
    /\ calc.args.collateralBalance <= 0
    /\ calc.args.debtAmount > 0
    /\ calc.pc = "threw"

\* The two bounds of the repay amount, each with its division rounded down.
CloseFactorBound(a) == (a.debtAmount * a.closeFactorBps) \div BPS

CollateralBound(a) ==
    (a.collateralBalance * a.priceCol * BPS * Pow10(a.debtDecimals))
        \div (a.priceDebt * a.liquidationBonusBps * Pow10(a.colDecimals))

\* The inputs of C17: no negative debt or close factor, and the two prices,
\* the bonus and the collateral balance positive.
WellFormed(a) ==
    /\ a.debtAmount >= 0
    /\ a.closeFactorBps >= 0
    /\ a.priceDebt > 0
    /\ a.priceCol > 0
    /\ a.liquidationBonusBps > 0
    /\ a.collateralBalance > 0

\* C17: on inputs with debtAmount >= 0, closeFactorBps >= 0 and the four
\* preconditions met, computeMaxRepay returns the smaller of
\* floor(debtAmount * closeFactorBps / 10000) and
\* floor(collateralBalance * priceCol * 10000 * 10^debtDecimals
\*       / (priceDebt * liquidationBonusBps * 10^colDecimals)):
\* never negative, above neither bound, and equal to one of them.
C17_RepayIsSmallerBound ==
    (HasEnded("computeMaxRepay") /\ WellFormed(calc.args)) =>
        /\ calc.pc = "returned"
        /\ calc.ret >= 0
        /\ calc.ret <= CloseFactorBound(calc.args)
        /\ calc.ret <= CollateralBound(calc.args)
        /\ calc.ret \in {CloseFactorBound(calc.args), CollateralBound(calc.args)}

\* A call returned a positive amount with the two bounds apart.
C17_Witness ==
    /\ HasReturned("computeMaxRepay")
    /\ WellFormed(calc.args)
    /\ calc.ret > 0
    /\ CloseFactorBound(calc.args) # CollateralBound(calc.args)

\* C18: the amount r returned by computeMaxRepay satisfies
\* r * priceDebt * liquidationBonusBps * 10^colDecimals
\*    <= collateralBalance * priceCol * 10000 * 10^debtDecimals:
\* the collateral seized for r, bonus included, is at most the collateral
\* there is.
C18_SeizedWithinCollateral ==
    HasReturned("computeMaxRepay") =>
        calc.ret * calc.args.priceDebt * calc.args.liquidationBonusBps
              * Pow10(calc.args.colDecimals)
           <= calc.args.collateralBalance * calc.args.priceCol * BPS
                 * Pow10(calc.args.debtDecimals)

\* A call returned the collateral bound, positive and cut by its division.
C18_Witness ==
    /\ HasReturned("computeMaxRepay")
    /\ WellFormed(calc.args)
    /\ calc.ret > 0
    /\ calc.ret < CloseFactorBound(calc.args)
    /\ calc.ret * calc.args.priceDebt * calc.args.liquidationBonusBps
             * Pow10(calc.args.colDecimals)
          < calc.args.collateralBalance * calc.args.priceCol * BPS
               * Pow10(calc.args.debtDecimals)


\* The value in base currency of the amount repaid, rounded down.
RepayValue(a, repayAmount) == (repayAmount * a.priceDebt) \div Pow10(a.debtDecimals)

\* An argument of the cost model, 0 when it is not given.
GivenOrZero(opt) == IF opt = NULL THEN 0 ELSE opt[1]

\* C19: evaluateProfit returns repayAmount = computeMaxRepay(inputs) and
\* profitBase = floor(V * liquidationBonusBps / 10000) - V
\*                 - floor(V * dexFeeBps / 10000) - extraCostBase
\* with V = floor(repayAmount * priceDebt / 10^debtDecimals), dexFeeBps and
\* extraCostBase counting as 0 when they are not given; it throws only when
\* computeMaxRepay does.
C19_ProfitOfMaxRepay ==
    HasEnded("evaluateProfit") =>
        LET repay == computeMaxRepay(calc.args)
            V     == RepayValue(calc.args, repay.value)
        IN  IF repay.threw THEN calc.pc = "threw"
            ELSE /\ calc.pc = "returned"
                 /\ calc.ret.repayAmount = repay.value
                 /\ calc.ret.profitBase =
                       ((V * calc.args.liquidationBonusBps) \div BPS) - V
                          - ((V * GivenOrZero(calc.args.dexFeeBps)) \div BPS)
                          - GivenOrZero(calc.args.extraCostBase)

\* An evaluation without a fee rate returned a positive repay amount and,
\* for the extra cost it was given, a negative profit.
C19_Witness ==
    /\ HasReturned("evaluateProfit")
    /\ calc.args.dexFeeBps = NULL
    /\ calc.args.extraCostBase # NULL
    /\ calc.ret.repayAmount > 0
    /\ calc.ret.profitBase < 0


\* The account of the worked example, its amounts scaled down: health
\* factor 0.98, a debt of 1000 units of "USDC" at price 1, and a collateral
\* of 10.0 "WETH" (one decimal) at price 2000, the base unit being 1.
ExampleHealthFactor == (98 * WAD) \div 100

ExamplePosition ==
    [debts |-> <<DebtReads[1]>>, collaterals |-> <<CollateralReads[1]>>,
     baseUnit |-> 1]

ExampleEvaluation ==
    evaluateProfit(PairInputs(DebtReads[1], CollateralReads[1], 1))

\* C20: for the account of the example, with closeFactorBps 5000,
\* liquidationBonusBps 10500 and dexFeeBps 30, the evaluation of the pair
\* yields the close-factor bound as repayAmount (half of the debt, below
\* the collateral bound) and a positive profitBase, and the worker saves
\* this pair as the one opportunity of the account.
C20_ExampleIsRecorded ==
    (/\ HasEnded("EvaluateAccount")
     /\ calc.args.healthFactor = ExampleHealthFactor
     /\ calc.args.position = ExamplePosition) =>
        /\ CloseFactorBps = 5000
        /\ DexFeeBps = 30
        /\ CollateralReads[1].liquidationBonus = 10500
        /\ ~ExampleEvaluation.threw
        /\ ExampleEvaluation.value.repayAmount = 500
        /\ ExampleEvaluation.value.repayAmount
              = (DebtReads[1].variableDebt * 5000) \div 10000
        /\ ExampleEvaluation.value.repayAmount
              < CollateralBound(PairInputs(DebtReads[1], CollateralReads[1], 1))
        /\ ExampleEvaluation.value.profitBase > 0
        /\ calc.pc = "returned"
        /\ Len(calc.ret) = 1
        /\ calc.ret[1].collateralAsset = Some("WETH")
        /\ calc.ret[1].estimatedProfitUsd # NULL
        /\ calc.ret[1].notes =
              <<"debtAsset=", "USDC", " repayAmount=", 500,
                " profitBase=", ExampleEvaluation.value.profitBase>>

\* The evaluation of the account of the example saved an opportunity.
C20_Witness ==
    /\ HasReturned("EvaluateAccount")
    /\ calc.args.healthFactor = ExampleHealthFactor
    /\ calc.args.position = ExamplePosition
    /\ Len(calc.ret) = 1
    /\ calc.ret[1].estimatedProfitUsd # NULL


\* The position has candidate pairs, and in each of them the collateral has
\* no balance left when the loop reads it.
OnlyEmptyCollateral(position) ==
    /\ Len(position.debts) > 0
    /\ Len(position.collaterals) > 0
    /\ \A k \in DOMAIN position.collaterals : position.collaterals[k].balance = 0

\* C21: a pair whose collateral balance is 0 is left before evaluateProfit;
\* when the account below minHfWad has no other candidate pair, its
\* evaluation throws nothing and saves one record with the note that no
\* pair was found, without collateral asset and without profit.
C21_EmptyCollateralIsSkipped ==
    (HasEnded("EvaluateAccount") /\ calc.args.healthFactor < minHfWad) =>
        LET pairs == Pairs(calc.args.position)
        IN  /\ \A k \in DOMAIN pairs :
                   pairs[k][2].balance = 0 => Skipped(pairs[k][1], pairs[k][2])
            /\ OnlyEmptyCollateral(calc.args.position) =>
                   /\ calc.pc = "returned"
                   /\ calc.ret = <<[collateralAsset    |-> NULL,
                                    estimatedProfitUsd |-> NULL,
                                    notes              |-> NotesNoPair]>>

\* The evaluation of an account with one debt with a price and one
\* collateral without balance has ended.
C21_Witness ==
    /\ HasReturned("EvaluateAccount")
    /\ calc.args.healthFactor < minHfWad
    /\ Len(calc.args.position.debts) = 1
    /\ calc.args.position.debts[1].variableDebt > 0
    /\ calc.args.position.debts[1].price > 0
    /\ Len(calc.args.position.collaterals) = 1
    /\ calc.args.position.collaterals[1].balance = 0
    /\ calc.args.position.collaterals[1].price > 0


(***************************************************************************)
(* Properties of the worker's start-up and of its failures (under Spec)    *)
(***************************************************************************)

\* C22: no failure of a tick, the first tick included, stops the worker
\* loop: runWatchlistMonitor never ends without its timer because a tick
\* failed.
C22_FailedTickKeepsLoop == pstate # "exited"


(***************************************************************************)
(* Properties of worker processes sharing the store (under FleetSpec)      *)
(***************************************************************************)

\* The rows a tick has claimed and not yet rescheduled.
Unprocessed(rec) ==
    IF rec.pc = "batch" THEN {rec.due[k] : k \in DOMAIN rec.due}
    ELSE IF rec.pc = "loop" THEN {rec.due[k] : k \in rec.i .. Len(rec.due)}
    ELSE IF rec.pc = "profit" THEN {rec.due[k] : k \in (rec.i + 1) .. Len(rec.due)}
    ELSE {}

\* C23: with two worker processes of one tier on the same store, an
\* account claimed by the tick of one process is not claimed by the tick of
\* the other before the first has rescheduled it.
C23_NoAccountClaimedTwice ==
    \A t, u \in Ticks :
        t # u => Unprocessed(tick[t]) \cap Unprocessed(tick[u]) = {}


(***************************************************************************)
(* Properties of the start-up and of the evaluation (under CalcSpec)       *)
(***************************************************************************)

\* C24: when the endpoint list, the chain id, the data-provider address,
\* the lending-pool address or the oracle address is missing, the start-up
\* throws: it does not reach the first tick.
C24_MissingSettingFailsStartUp ==
    (HasEnded("StartUp") /\ calc.args # Settings) => calc.pc = "threw"


\* C25: a pair is saved as the opportunity of an account only if its
\* estimated profit is at least the minimum profit; otherwise the record
\* carries the note that no pair was found.
C25_SavedPairClearsMinProfit ==
    (/\ HasReturned("EvaluateAccount")
     /\ Len(calc.ret) = 1
     /\ calc.ret[1].collateralAsset # NULL) =>
        FloatGeq(calc.ret[1].estimatedProfitUsd[1], Number(minProfitUSD))


(***************************************************************************)
(* Properties of one tick (under TickSpec)                                 *)
(***************************************************************************)

\* The interval after which a row is checked again, by tier.
IntervalOf(m) == IF m = "highfreq" THEN 30 ELSE 300

\* C26: for a claimed row whose slot of the batch read is null, the tick
\* writes an error to the row and sets next_check_at to now plus the
\* interval, leaves the tier of the row and the opportunities alone, starts
\* no profit estimation, and goes on to the next row (or ends after the
\* last one).
C26_NullSlotIsRecordedAndPassed ==
    [][\A t \in Ticks :
          ProcessRowWith(t, NullSlot)
              => /\ store'[RowOf(t)].last_error = Some("multicall-failed")
                 /\ store'[RowOf(t)].next_check_at = now + IntervalOf(mode)
                 /\ store'[RowOf(t)].last_status = store[RowOf(t)].last_status
                 /\ opps' = opps
                 /\ tick'[t].hf = NULL
                 /\ IF tick[t].i < Len(tick[t].due)
                    THEN tick'[t].pc = "loop" /\ tick'[t].i = tick[t].i + 1
                    ELSE tick'[t].pc = "done"]_vars

\* The tick has written the error of a null slot to its first row and has
\* gone on to its second row.
C26_Witness ==
    /\ tick[1].pc = "loop"
    /\ tick[1].i = 2
    /\ store[tick[1].due[1]].last_error = Some("multicall-failed")
    /\ store[tick[1].due[1]].next_check_at = now + IntervalOf(mode)
    /\ opps = <<>>

\* C27: for a claimed row whose health factor was read and is not
\* representable (no debt), the tick persists no health factor and no
\* opportunity, and still sets next_check_at to now plus the interval of
\* the tier.
C27_UndefinedHealthStillReschedules ==
    [][\A t \in Ticks : \A account \in Slots :
          (/\ account.success
           /\ hfToDb(account.healthFactor) = NULL
           /\ ProcessRowWith(t, account))
              => /\ opps' = opps
                 /\ tick'[t].pc # "profit"
                 /\ store'[RowOf(t)].last_health_factor = NULL
                 /\ store'[RowOf(t)].next_check_at = now + IntervalOf(mode)]_vars

\* C30: when the batch read of a tick fails as a whole, every row the tick
\* claimed gets an error written and its next_check_at set to now plus the
\* interval.
C30_BatchFailureIsRecordedPerRow ==
    [][\A t \in Ticks :
          BatchFails(t)
              => \A k \in DOMAIN tick[t].due :
                     /\ store'[tick[t].due[k]].last_error # NULL
                     /\ store'[tick[t].due[k]].next_check_at
                           = now + IntervalOf(mode)]_vars


\* The pairs of the position that reach evaluateProfit and are rejected by
\* computeMaxRepay.
RejectedPairs(position) ==
    {k \in DOMAIN Pairs(position) :
        LET d == Pairs(position)[k][1]
            c == Pairs(position)[k][2]
        IN  /\ ~Skipped(d, c)
            /\ InvalidInput(PairInputs(d, c, position.baseUnit))}

\* C28: when computeMaxRepay rejects a pair of an account for a price, a
\* balance or a liquidation bonus that is not positive, the evaluation of
\* the account does not fail: it goes on with the other pairs and ends in
\* the record to save.
C28_RejectedPairIsPassedOver ==
    (/\ HasEnded("EvaluateAccount")
     /\ calc.args.healthFactor < minHfWad
     /\ RejectedPairs(calc.args.position) # {}) =>
        /\ calc.pc = "returned"
        /\ Len(calc.ret) = 1


\* What evaluateProfit returns for pair k of the position.
PairResult(position, k) ==
    evaluateProfit(PairInputs(Pairs(position)[k][1], Pairs(position)[k][2],
                              position.baseUnit))

\* Pair k of the position is evaluated and has a repay amount above 0.
Repayable(position, k) ==
    /\ ~Skipped(Pairs(position)[k][1], Pairs(position)[k][2])
    /\ ~PairResult(position, k).threw
    /\ PairResult(position, k).value.repayAmount > 0

\* Pair k of the position is the one of the record.
IsSavedPair(position, k, record) ==
    /\ Repayable(position, k)
    /\ record.notes[2] = Pairs(position)[k][1].asset
    /\ record.collateralAsset = Some(Pairs(position)[k][2].asset)
    /\ record.estimatedProfitUsd
          = Some(PairResult(position, k).value.profitUsdApprox)

\* C29: the pair saved for an account is an evaluated pair with a repay
\* amount above 0, and no evaluated pair with a repay amount above 0 has a
\* higher profitUsdApprox, in whichever order the pairs come.
C29_SavedPairIsMostProfitable ==
    (/\ HasReturned("EvaluateAccount")
     /\ Len(calc.ret) = 1
     /\ calc.ret[1].collateralAsset # NULL) =>
        LET position == calc.args.position
            saved    == calc.ret[1]
        IN  /\ \E k \in DOMAIN Pairs(position) : IsSavedPair(position, k, saved)
            /\ \A k \in DOMAIN Pairs(position) :
                   Repayable(position, k) =>
                       FloatLeq(PairResult(position, k).value.profitUsdApprox,
                                saved.estimatedProfitUsd[1])

\* The pair saved was not the first one evaluated: an earlier pair had a
\* repay amount above 0 and a lower profit.
C29_Witness ==
    /\ HasReturned("EvaluateAccount")
    /\ Len(calc.ret) = 1
    /\ calc.ret[1].collateralAsset # NULL
    /\ \E k \in DOMAIN Pairs(calc.args.position) :
           /\ k > 1
           /\ IsSavedPair(calc.args.position, k, calc.ret[1])
           /\ Repayable(calc.args.position, 1)
           /\ ~FloatLeq(calc.ret[1].estimatedProfitUsd[1],
                        PairResult(calc.args.position, 1).value.profitUsdApprox)


\* The rows a failed tick leaves open: every claimed row when the failure
\* came before the loop, the row of the loop otherwise.
Affected(rec) ==
    {rec.due[k] : k \in {j \in DOMAIN rec.due : rec.i = 0 \/ j = rec.i}}

\* C31: when a tick has failed, each claimed account the failure concerns
\* has the failure in the store: last_error of its row is set, or an
\* opportunity record with a note was written for it.
C31_FailureIsWritten ==
    \A t \in Ticks :
        tick[t].pc = "failed"
            => \A a \in Affected(tick[t]) :
                   \/ store[a].last_error # NULL
                   \/ \E o \in DOMAIN opps : opps[o].borrower_id = a


(***************************************************************************)
(* Properties of RotatingRpcProvider under calls in flight at once         *)
(* (under ProviderLiveSpec and ProviderSpec)                               *)
(***************************************************************************)

\* C32: a call of _perform whose backend attempts all end comes to its end,
\* with a result or an error, and has made at most NBackends attempts by
\* then, also when every answer it gets is a rate-limit answer.
C32_PerformTerminates ==
    /\ [](\A c \in Calls :
             /\ Len(call[c].log) <= NBackends
             /\ Len(call[c].log) = NBackends => call[c].pc \in {"done", "failed"}
             /\ call[c].pc = "done" => call[c].result # NULL
             /\ call[c].pc = "failed" => call[c].error # NULL)
    /\ \A c \in Calls :
           (call[c].pc = "wait") ~> (call[c].pc \in {"done", "failed"})

\* A call has ended on its last backend after a rate-limit answer of every
\* other one.
C32_Witness ==
    \E c \in Calls :
        /\ call[c].pc = "done"
        /\ Len(call[c].log) = NBackends
        /\ \A k \in 1 .. (NBackends - 1) : call[c].log[k].out = "rl"


\* C33: with calls in flight at once, each call asks every backend at most
\* once, and a call that fails with a rate-limit error has been rate-limited
\* by every one of the NBackends backends: none was passed over.
C33_NoBackendSkipped ==
    \A c \in Calls :
        /\ \A j, k \in 1 .. Len(call[c].log) :
               j < k => call[c].log[j].idx # call[c].log[k].idx
        /\ (/\ call[c].pc = "failed"
            /\ call[c].error # NULL
            /\ call[c].error[1] \in RateLimitErrors)
               => \A b \in Backends :
                      \E k \in 1 .. Len(call[c].log) :
                          call[c].log[k] = [idx |-> b, out |-> "rl"]


(***************************************************************************)
(* Properties of the due queue (under QueueSpec)                           *)
(***************************************************************************)

\* C34: while ticks keep firing and batch reads succeed, every account
\* that is due is eventually claimed and has its result written: the write
\* sets next_check_at to a later time, so the account leaves the due rows
\* and cannot hold its place in the batch for ever.
C34_DueAccountIsServed ==
    \A a \in Accounts : IsDue(a) ~> ~IsDue(a)


(***************************************************************************)
(* Properties of the opportunity records (under TickSpec)                  *)
(***************************************************************************)

\* The evaluation of the row of tick t comes to its end in this step.
EvaluationCompletes(t) ==
    /\ tick[t].pc = "profit"
    /\ tick'[t].pc \in {"loop", "done"}

\* This step adds one record for borrower a at the end of the records and
\* leaves the earlier ones as they are.
OneRecordAdded(a) ==
    /\ Len(opps') = Len(opps) + 1
    /\ SubSeq(opps', 1, Len(opps)) = opps
    /\ opps'[Len(opps')].borrower_id = a

\* C35: a step in which the evaluation of a liquidatable account completes
\* adds exactly one opportunity record, for that account, holding the pair
\* found or a note; no other step writes the records, and no step changes
\* or removes a record written before.
C35_OpportunitiesAreAppendOnly ==
    [][/\ \A t \in Ticks :
              EvaluationCompletes(t)
                  => /\ OneRecordAdded(RowOf(t))
                     /\ \/ opps'[Len(opps')].collateral_asset # NULL
                        \/ opps'[Len(opps')].notes \in {NotesNoAssets, NotesNoPair}
       /\ opps' # opps => \E t \in Ticks : EvaluationCompletes(t)]_vars

\* A second record was added in one tick and the first one is still there.
C35_Witness ==
    /\ Len(opps) = 2
    /\ opps[1].borrower_id # opps[2].borrower_id
    /\ opps[1].collateral_asset # NULL


\* The row of borrower a holds the health factor hf, below 1, written at
\* the present time together with the next due time of the tier.
UpdatedBelowBoundary(a, hf) ==
    /\ hf # NULL
    /\ hf[1] < 1
    /\ store[a].last_health_factor = hf
    /\ store[a].last_check_at = now
    /\ store[a].next_check_at = now + IntervalOf(mode)

\* C36: in a tick, the monitor state of an account is updated with its
\* health factor and its next due time before the profit evaluation of the
\* account begins, and the evaluation begins only for a health factor
\* below 1: every opportunity record, and every evaluation under way or
\* failed, is of an account updated so.
C36_RecordFollowsUpdate ==
    /\ \A o \in DOMAIN opps :
           UpdatedBelowBoundary(opps[o].borrower_id, opps[o].health_factor)
    /\ \A t \in Ticks :
           (tick[t].pc = "profit" \/ (tick[t].pc = "failed" /\ tick[t].hf # NULL))
               => UpdatedBelowBoundary(RowOf(t), tick[t].hf)

\* An evaluation has failed after a record was written for an earlier row
\* of the tick.
C36_Witness ==
    /\ Len(opps) = 1
    /\ \E t \in Ticks :
           /\ tick[t].pc = "failed"
           /\ tick[t].hf # NULL
           /\ RowOf(t) # opps[1].borrower_id


(***************************************************************************)
(* Properties of the discovery evaluation (under CalcSpec)                 *)
(***************************************************************************)

\* The decimals or the price of an asset of pair k are missing.
DataMissing(a, k) ==
    LET d == Pairs(a.position)[k][1]
        c == Pairs(a.position)[k][2]
    IN  \/ d.asset \notin a.known
        \/ c.asset \notin a.known
        \/ d.price = 0
        \/ c.price = 0

\* Pair k has a variable debt, a balance and all its data.
Evaluable(a, k) ==
    /\ ~DataMissing(a, k)
    /\ Pairs(a.position)[k][1].variableDebt > 0
    /\ Pairs(a.position)[k][2].balance > 0

\* Pair k is among the opportunities.
Listed(a, k, opportunities) ==
    \E o \in DOMAIN opportunities :
        /\ opportunities[o].debtAsset = Pairs(a.position)[k][1].asset
        /\ opportunities[o].collateralAsset = Pairs(a.position)[k][2].asset

\* C38: evaluateLiquidation passes over a pair whose decimals or price are
\* missing without an error and goes on with the other pairs: it throws
\* only when evaluateProfit rejects a pair that has all its data, no pair
\* with missing data is among the opportunities it returns, and every pair
\* with all its data, a repay amount above 0 and a profit of at least the
\* minimum is among them.
C38_MissingDataSkipsThePair ==
    HasEnded("evaluateLiquidation") =>
        LET a == calc.args
        IN  /\ calc.pc = "threw"
                  => \E k \in DOMAIN Pairs(a.position) :
                         /\ Evaluable(a, k)
                         /\ PairResult(a.position, k).threw
            /\ calc.pc = "returned"
                  => \A k \in DOMAIN Pairs(a.position) :
                         /\ DataMissing(a, k) => ~Listed(a, k, calc.ret)
                         /\ (/\ Evaluable(a, k)
                             /\ PairResult(a.position, k).value.repayAmount > 0
                             /\ FloatLeq(a.minProfit,
                                         PairResult(a.position, k).value.profitUsdApprox))
                                => Listed(a, k, calc.ret)

\* A pair was listed after a pair without decimals and a pair without a
\* price had been passed over.
C38_Witness ==
    /\ HasReturned("evaluateLiquidation")
    /\ \E i, j, k \in DOMAIN Pairs(calc.args.position) :
           /\ i < k
           /\ j < k
           /\ Pairs(calc.args.position)[i][1].asset \notin calc.args.known
           /\ Pairs(calc.args.position)[i][1].price > 0
           /\ Pairs(calc.args.position)[i][1].variableDebt > 0
           /\ Pairs(calc.args.position)[j][1].price = 0
           /\ Listed(calc.args, k, calc.ret)


(***************************************************************************)
(* Properties of the discovery loop (under DiscoverySpec)                  *)
(***************************************************************************)

\* The checks in flight.
ChecksInFlight == {k \in Checks : discovery.check[k] = "finding"}

\* C37: in the discovery loop at most one check is in flight; a timer fire
\* that comes while a check is running starts nothing and leaves the flag
\* set; the flag is set only while a check is in flight, so every check,
\* a failed one too, releases it and the flag does not stay set.
C37_OneCheckAtATime ==
    /\ [](Cardinality(ChecksInFlight) <= 1)
    /\ [](discovery.running <=> ChecksInFlight # {})
    /\ [][(CheckFire /\ ChecksInFlight # {})
              => /\ discovery'.check = discovery.check
                 /\ discovery'.running
                 /\ discovery'.events = Append(discovery.events, "dropped")]_vars
    /\ discovery.running ~> ~discovery.running

\* A timer fire was dropped during a check, the check failed, and a later
\* fire started a check.
C37_Witness ==
    \E i, j, k \in DOMAIN discovery.events :
        /\ i < j
        /\ j < k
        /\ discovery.events[i] = "dropped"
        /\ discovery.events[j] = "failed"
        /\ discovery.events[k] = "started"


(***************************************************************************)
(* Properties of the shutdown of the worker (under StopSpec)               *)
(***************************************************************************)

\* C39: after a stop request the tick in flight has run to its end: no
\* tick is left cut in the middle, and no account is left with its monitor
\* state written by that tick and its opportunity record missing.
C39_StopIsGraceful ==
    pstate = "stopped"
        => \A t \in Ticks :
               /\ tick[t].pc # "killed"
               /\ tick[t].hf # NULL
                      => \E o \in DOMAIN opps : opps[o].borrower_id = RowOf(t)

=============================================================================
